---- MODULE Spec2Model ----
(***************************************************************************)
(* Dialogue state engine of the telephony dispatch voice agent:           *)
(* slot extraction and slot memory, the webhook turn handler, the duplex   *)
(* (WebSocket) turn loop, the oracle client and post-call summarisation.   *)
(*                                                                         *)
(* Representation.  A text is the sequence of its whitespace-separated     *)
(* tokens.  A slot value is a text; Python's None is the text None and     *)
(* the empty string is the empty sequence.  An agent utterance is a        *)
(* record [tpl, args]: the template sentence and the slot values that are  *)
(* formatted into it.                                                      *)
(***************************************************************************)
EXTENDS Integers, Sequences, FiniteSets, TLC

(***************************************************************************)
(* Bounds of the model                                                     *)
(***************************************************************************)
\* number of inbound events handled in one behaviour
MaxEvents == 2
\* largest provider response_id the duplex channel delivers
MaxResponseId == 1
\* number of messages the provider sends over one duplex session
MaxWsEvents == 2
\* number of low-confidence turns of one call
MaxNoisyTurns == 3
\* number of slot-writing events of one call over both channels
MaxSlotEvents == 2
\* short driver utterances delivered to one call
MaxShortTurns == 3
\* webhook requests of one call that can be in flight together
MaxHandlers == 2
\* webhook events of one call whose prompts are followed
MaxPromptTurns == 3

\* the one element of a singleton set: names an intermediate value
Only(S) == CHOOSE x \in S : TRUE

(***************************************************************************)
(* Texts                                                                   *)
(***************************************************************************)
None == <<"None">>
EmptyStr == <<>>

\* Python truthiness of an optional string
Truthy(v) == v # None /\ v # EmptyStr

\* str.lower() on one token
LowerTok(tok) ==
    CASE tok = "There" -> "there"
      [] tok = "Crash" -> "crash"
      [] tok = "Indio" -> "indio"
      [] OTHER -> tok

\* str.lower()
Lower(text) == [i \in 1..Len(text) |-> LowerTok(text[i])]

\* str.capitalize() on the keywords the extractor capitalises
Capitalize(w) ==
    CASE w = "driving" -> "Driving"
      [] w = "delayed" -> "Delayed"
      [] w = "arrived" -> "Arrived"
      [] w = "dispatched" -> "Dispatched"
      [] w = "stopped" -> "Stopped"
      [] w = "waiting" -> "Waiting"
      [] w = "accident" -> "Accident"
      [] w = "breakdown" -> "Breakdown"
      [] w = "medical" -> "Medical"
      [] w = "fire" -> "Fire"
      [] w = "other" -> "Other"
      [] OTHER -> w

\* <<w, tok>>: the word w occurs inside the longer token tok
InfixPairs ==
    { <<"hit", "white">>, <<"bye", "goodbye">>, <<"no", "know">>,
      <<"no", "now">>, <<"no", "north">>, <<"other", "another">>,
      <<"right", "alright">> }

TokHas(tok, w) == tok = w \/ <<w, tok>> \in InfixPairs

\* Python's `kw in text` for a keyword of one or more words
Occurs(kw, text) ==
    \E i \in 1..Len(text) :
        /\ i + Len(kw) - 1 <= Len(text)
        /\ \A j \in 1..Len(kw) : TokHas(text[i + j - 1], kw[j])

\* any(k in text for k in kws), kws a sequence of keywords
AnyOccurs(kws, text) == \E n \in 1..Len(kws) : Occurs(kws[n], text)

\* first keyword of the list that occurs in the text (0 when none does)
FirstOccurring(kws, text) ==
    IF AnyOccurs(kws, text)
    THEN CHOOSE n \in 1..Len(kws) :
            /\ Occurs(kws[n], text)
            /\ \A m \in 1..(n - 1) : ~Occurs(kws[m], text)
    ELSE 0

\* len(text.split())
WordCount(text) == Len(text)

InaudibleMarker == <<"[inaudible]">>

(***************************************************************************)
(* escalation.py                                                           *)
(***************************************************************************)
EmergencyKeywords ==
    << <<"blowout">>, <<"accident">>, <<"crash">>, <<"hit">>, <<"medical">>,
       <<"chest", "pain">>, <<"ambulance">>, <<"bleeding">>,
       <<"i", "need", "help">>, <<"pulling", "over">>, <<"smoke">> >>

detect_emergency_keywords(text) == AnyOccurs(EmergencyKeywords, Lower(text))

(***************************************************************************)
(* Configuration flags (environment variables, fixed during a run)         *)
(***************************************************************************)
VARIABLES
    SLOT_HEURISTICS_ENABLED,      \* os.getenv("SLOT_HEURISTICS_ENABLED")
    SLOT_TEXT_TEMPLATES_ENABLED   \* os.getenv("SLOT_TEXT_TEMPLATES_ENABLED")

(***************************************************************************)
(* slot_memory.py                                                          *)
(***************************************************************************)
SLOT_KEYS ==
    <<"driver_status", "current_location", "eta", "emergency_type",
      "emergency_location">>

SlotKeySet == {SLOT_KEYS[i] : i \in 1..Len(SLOT_KEYS)}

StatusKeywords ==
    << <<"driving">>, <<"delayed">>, <<"arrived">>, <<"dispatched">>,
       <<"stopped">>, <<"waiting">> >>

EmergencyContextWords ==
    << <<"emergency">>, <<"accident">>, <<"crash">>, <<"injury">>,
       <<"medical">>, <<"breakdown">>, <<"fire">> >>

EmergencyTypeWords ==
    << <<"accident">>, <<"breakdown">>, <<"medical">>, <<"fire">>, <<"other">> >>

\* tokens of the input alphabet by their spelling
DigitTokens == {"2", "5"}
DigitMeridiemTokens == {"5pm"}
MeridiemTokens == {"am", "pm"}
WordNumberTokens ==
    {"one", "two", "three", "four", "five", "six", "seven", "eight", "nine",
     "ten", "eleven", "twelve"}
UnitTokens == {"hours", "hour", "hrs", "hr", "minutes", "minute", "mins", "min"}
DayTokens == {"today", "tonight", "tomorrow"}
\* tokens of fewer than three characters
ShortTokens ==
    {"i", "a", "2", "5", "la", "am", "pm", "is", "in", "at", "by", "on", "my",
     "no", "ok"}
\* tokens whose first character is outside [\w\-\s,]
StopTokens == {"[inaudible]"}

StartsWithLetter(tok) ==
    tok \notin DigitTokens /\ tok \notin DigitMeridiemTokens /\ tok \notin StopTokens

LocSinglePrefixes == {"in", "at", "near", "around", "by", "on"}

\* index of the first captured token when the location prefix starts at i
\* (0 when no alternative of the prefix group matches at i)
LocCaptureStart(low, i) ==
    IF /\ i + 2 <= Len(low)
       /\ low[i] = "my" /\ low[i + 1] = "location" /\ low[i + 2] = "is"
    THEN i + 3
    ELSE IF i + 1 <= Len(low) /\ low[i] = "location" /\ low[i + 1] = "is"
    THEN i + 2
    ELSE IF i + 1 <= Len(low) /\ low[i] = "currently" /\ low[i + 1] = "in"
    THEN i + 2
    ELSE IF low[i] \in LocSinglePrefixes
    THEN i + 1
    ELSE 0

\* last captured token: the character class [\w\-\s,] runs to the first
\* token that starts outside it
LocCaptureEnd(text, s) ==
    IF \E e \in s..Len(text) : text[e] \in StopTokens
    THEN (CHOOSE e \in s..Len(text) :
            /\ text[e] \in StopTokens
            /\ \A d \in s..(e - 1) : text[d] \notin StopTokens) - 1
    ELSE Len(text)

\* the regex matches with its prefix starting at token i
LocMatchesAt(text, i) ==
    LET s == LocCaptureStart(Lower(text), i)
    IN  /\ s # 0
        /\ s <= Len(text)
        /\ StartsWithLetter(text[s])
        /\ LocCaptureEnd(text, s) >= s
        /\ (LocCaptureEnd(text, s) > s \/ text[s] \notin ShortTokens)

\* re.search(location regex, text).group(1), None when there is no match
LocationMatch(text) ==
    IF \E i \in 1..Len(text) : LocMatchesAt(text, i)
    THEN LET i == CHOOSE i \in 1..Len(text) :
                    /\ LocMatchesAt(text, i)
                    /\ \A h \in 1..(i - 1) : ~LocMatchesAt(text, h)
             s == LocCaptureStart(Lower(text), i)
         IN  SubSeq(text, s, LocCaptureEnd(text, s))
    ELSE None

Misspellings ==
    << <<"moutan", "Multan">>, <<"mudan", "Multan">>, <<"muzan", "Multan">>,
       <<"muntan", "Multan">>, <<"lahar", "Lahore">> >>

RECURSIVE NormalizeFrom(_, _, _)
NormalizeFrom(table, n, loc) ==
    IF n > Len(table) THEN loc
    ELSE NormalizeFrom(table, n + 1,
            IF Occurs(<<table[n][1]>>, Lower(loc)) THEN <<table[n][2]>> ELSE loc)

NormalizeLocation(loc) == NormalizeFrom(Misspellings, 1, loc)

\* leftmost match of  \b(\d{1,2}\s?(am|pm))\b  in the lowered text
EtaDigitAt(low, i) ==
    IF low[i] \in DigitMeridiemTokens THEN <<low[i]>>
    ELSE IF /\ low[i] \in DigitTokens
            /\ i + 1 <= Len(low)
            /\ low[i + 1] \in MeridiemTokens
    THEN <<low[i], low[i + 1]>>
    ELSE None

EtaWordAt(low, i) ==
    IF /\ low[i] \in WordNumberTokens
       /\ i + 1 <= Len(low)
       /\ low[i + 1] \in MeridiemTokens
    THEN <<low[i], low[i + 1]>>
    ELSE None

EtaRelAt(low, i) ==
    IF /\ low[i] = "in"
       /\ i + 2 <= Len(low)
       /\ low[i + 1] \in DigitTokens
       /\ low[i + 2] \in UnitTokens
    THEN <<low[i], low[i + 1], low[i + 2]>>
    ELSE None

EtaDayAt(low, i) == IF low[i] \in DayTokens THEN <<low[i]>> ELSE None

\* re.search: the match at the leftmost position, None when there is none
Leftmost(At(_, _), low) ==
    IF \E i \in 1..Len(low) : At(low, i) # None
    THEN At(low, CHOOSE i \in 1..Len(low) :
                    /\ At(low, i) # None
                    /\ \A h \in 1..(i - 1) : At(low, h) = None)
    ELSE None

EtaMatch(low) ==
    LET eta_digit == Leftmost(EtaDigitAt, low)
        eta_word == Leftmost(EtaWordAt, low)
        eta_rel == Leftmost(EtaRelAt, low)
        eta_day == Leftmost(EtaDayAt, low)
    IN  IF eta_digit # None THEN eta_digit
        ELSE IF eta_word # None /\ eta_day # None THEN eta_day \o eta_word
        ELSE IF eta_word # None THEN eta_word
        ELSE IF eta_rel # None THEN eta_rel
        ELSE None

\* the value extract_slots finds for one slot (None: the key is not set)
ExtractedValue(text, key) ==
    LET low == Lower(text)
        loc == LocationMatch(text)
    IN  CASE key = "driver_status" ->
                IF AnyOccurs(StatusKeywords, low)
                THEN <<Capitalize(StatusKeywords[FirstOccurring(StatusKeywords, low)][1])>>
                ELSE None
          [] key = "emergency_type" ->
                IF AnyOccurs(EmergencyContextWords, low) /\ AnyOccurs(EmergencyTypeWords, low)
                THEN <<Capitalize(EmergencyTypeWords[FirstOccurring(EmergencyTypeWords, low)][1])>>
                ELSE None
          [] key = "current_location" ->
                IF loc # None THEN NormalizeLocation(loc) ELSE None
          [] key = "emergency_location" ->
                IF loc # None /\ AnyOccurs(EmergencyContextWords, low)
                THEN NormalizeLocation(loc)
                ELSE None
          [] key = "eta" -> EtaMatch(low)

\* an extractor that does not read SLOT_HEURISTICS_ENABLED
extract_slots_ungated(text) ==
    IF text = EmptyStr THEN <<>>
    ELSE [k \in {key \in SlotKeySet : ExtractedValue(text, key) # None}
            |-> ExtractedValue(text, k)]

\* extract_slots: the dict of the slots found in one utterance
extract_slots(text) ==
    IF text = EmptyStr THEN <<>>
    ELSE IF ~SLOT_HEURISTICS_ENABLED THEN <<>>
    ELSE [k \in {key \in SlotKeySet : ExtractedValue(text, key) # None}
            |-> ExtractedValue(text, k)]

\* dict.get(key)
Get(d, key) == IF key \in DOMAIN d THEN d[key] ELSE None

get_missing_slots(current) ==
    SelectSeq(SLOT_KEYS, LAMBDA key : Get(current, key) = None \/ Get(current, key) = EmptyStr)

\* an agent utterance: template sentence and the values formatted into it
Say(tpl, args) == [tpl |-> tpl, args |-> args]
EmptyText == Say("", <<>>)
\* None where a text is expected
NoneText == Say("None", <<>>)
\* Python truthiness of an optional agent text
TextTruthy(t) == t # EmptyText /\ t # NoneText

InSeq(x, seq) == \E i \in 1..Len(seq) : seq[i] = x

\* a follow-up that asks for the time of arrival before the location
build_followup_eta_first(missing) ==
    IF ~SLOT_TEXT_TEMPLATES_ENABLED THEN EmptyText
    ELSE IF missing = <<>> THEN Say("Thanks. Anything else you want to add?", <<>>)
    ELSE IF InSeq("driver_status", missing) THEN Say("Got it. What's your current status?", <<>>)
    ELSE IF InSeq("eta", missing) THEN Say("Noted. What's your ETA?", <<>>)
    ELSE IF InSeq("current_location", missing) THEN Say("Thanks. Where are you right now?", <<>>)
    ELSE IF InSeq("emergency_type", missing) THEN Say("Understood. What type of emergency is it?", <<>>)
    ELSE IF InSeq("emergency_location", missing) THEN Say("Where exactly is the emergency?", <<>>)
    ELSE Say("Okay, could you share a bit more?", <<>>)

build_followup_for_missing(missing) ==
    IF ~SLOT_TEXT_TEMPLATES_ENABLED THEN EmptyText
    ELSE IF missing = <<>> THEN Say("Thanks. Anything else you want to add?", <<>>)
    ELSE IF InSeq("driver_status", missing) THEN Say("Got it. What's your current status?", <<>>)
    ELSE IF InSeq("current_location", missing) THEN Say("Thanks. Where are you right now?", <<>>)
    ELSE IF InSeq("eta", missing) THEN Say("Noted. What's your ETA?", <<>>)
    ELSE IF InSeq("emergency_type", missing) THEN Say("Understood. What type of emergency is it?", <<>>)
    ELSE IF InSeq("emergency_location", missing) THEN Say("Where exactly is the emergency?", <<>>)
    ELSE Say("Okay, could you share a bit more?", <<>>)

\* a closing text that looks at the emergency slots first
polite_end_emergency_first(slots) ==
    LET status == Get(slots, "driver_status")
        loc == Get(slots, "current_location")
        eta == Get(slots, "eta")
        etype == Get(slots, "emergency_type")
        eloc == Get(slots, "emergency_location")
    IN  IF SLOT_TEXT_TEMPLATES_ENABLED /\ Truthy(etype) /\ Truthy(eloc)
        THEN Say("I have the emergency noted: {etype} at {eloc}. A dispatcher will call you immediately.",
                 <<etype, eloc>>)
        ELSE IF SLOT_TEXT_TEMPLATES_ENABLED /\ Truthy(status) /\ Truthy(loc) /\ Truthy(eta)
        THEN Say("Thanks for the update - status {status}, location {loc}, ETA {eta}. Drive safe.",
                 <<status, loc, eta>>)
        ELSE IF SLOT_TEXT_TEMPLATES_ENABLED
        THEN Say("Thanks for the details. We'll follow up if needed.", <<>>)
        ELSE EmptyText

polite_end_from_slots(slots) ==
    LET status == Get(slots, "driver_status")
        loc == Get(slots, "current_location")
        eta == Get(slots, "eta")
        etype == Get(slots, "emergency_type")
        eloc == Get(slots, "emergency_location")
    IN  IF SLOT_TEXT_TEMPLATES_ENABLED /\ Truthy(status) /\ Truthy(loc) /\ Truthy(eta)
        THEN Say("Thanks for the update - status {status}, location {loc}, ETA {eta}. Drive safe.",
                 <<status, loc, eta>>)
        ELSE IF SLOT_TEXT_TEMPLATES_ENABLED /\ Truthy(etype) /\ Truthy(eloc)
        THEN Say("I have the emergency noted: {etype} at {eloc}. A dispatcher will call you immediately.",
                 <<etype, eloc>>)
        ELSE IF SLOT_TEXT_TEMPLATES_ENABLED
        THEN Say("Thanks for the details. We'll follow up if needed.", <<>>)
        ELSE EmptyText

(***************************************************************************)
(* db.py: the storage adapters                                             *)
(***************************************************************************)
\* ids create_call hands out (uuid4), and a provider id no record carries
RecordIds == {"c1", "c2"}
ForeignIds == {"x1"}
CallIds == RecordIds \cup ForeignIds

VARIABLES
    uuids,               \* the ids uuid4() has not handed out yet
    backend,             \* get_db(): "memory" (InMemoryDB) or "supabase" (SupabaseDB)
    calls,               \* calls: call id -> call row
    transcripts,         \* transcript segments stored per call id
    summaries,           \* summaries saved per call id
    noisy_counter,       \* noisy_counter: call id -> int
    short_counter,       \* short_counter: call id -> int
    slot_memory,         \* slot_memory: call id -> Slot Set
    conversation_state   \* conversation_state: call id -> Conversation State

\* the storage state threaded through one handler
Db ==
    [calls |-> calls, transcripts |-> transcripts, summaries |-> summaries,
     noisy_counter |-> noisy_counter, short_counter |-> short_counter,
     slot_memory |-> slot_memory, conversation_state |-> conversation_state]

\* dict.get(key, default)
GetOr(d, key, default) == IF key \in DOMAIN d THEN d[key] ELSE default

\* d[key] = value
Put(d, key, value) == [k \in DOMAIN d \cup {key} |-> IF k = key THEN value ELSE d[k]]

\* create_call: a new row with status queued
create_call(db, cid) ==
    [db EXCEPT !.calls = Put(db.calls, cid,
        [status |-> "queued", escalation_status |-> None,
         retell_call_id |-> "None", structured_summary |-> [kind |-> "None"]])]

\* update_call_status: rows that do not exist are left alone
update_call_status(db, call_id, status) ==
    IF call_id \in DOMAIN db.calls
    THEN [db EXCEPT !.calls[call_id].status = status]
    ELSE db

\* update_retell_call_id
update_retell_call_id(db, call_id, retell_call_id) ==
    IF call_id \in DOMAIN db.calls
    THEN [db EXCEPT !.calls[call_id].retell_call_id = retell_call_id]
    ELSE db

\* get_call_by_retell_id: the id of the row carrying the provider's id
get_call_by_retell_id(db, retell_call_id) ==
    IF \E c \in DOMAIN db.calls : db.calls[c].retell_call_id = retell_call_id
    THEN CHOOSE c \in DOMAIN db.calls : db.calls[c].retell_call_id = retell_call_id
    ELSE "None"

\* append_transcript: the segment is stored under the call id
append_transcript(db, call_id) ==
    [db EXCEPT !.transcripts = Put(db.transcripts, call_id, GetOr(db.transcripts, call_id, 0) + 1)]

\* InMemoryDB.append_transcript raises KeyError after storing the segment
\* when the call has no row; what an insert for an unknown call does in
\* SupabaseDB is the database's choice (dbRaises)
AppendTranscriptRaises(db, call_id, be, dbRaises) ==
    /\ call_id \notin DOMAIN db.calls
    /\ (be = "memory" \/ dbRaises)

\* a noise counter that would count the utterance as a short one too
increment_noisy_counter_both(db, call_id) ==
    [db EXCEPT !.noisy_counter = Put(db.noisy_counter, call_id, GetOr(db.noisy_counter, call_id, 0) + 1),
               !.short_counter = Put(db.short_counter, call_id, GetOr(db.short_counter, call_id, 0) + 1)]

increment_noisy_counter(db, call_id) ==
    [db EXCEPT !.noisy_counter = Put(db.noisy_counter, call_id, GetOr(db.noisy_counter, call_id, 0) + 1)]

increment_short_utterances(db, call_id) ==
    [db EXCEPT !.short_counter = Put(db.short_counter, call_id, GetOr(db.short_counter, call_id, 0) + 1)]

\* flag_escalation: InMemoryDB marks the row, SupabaseDB does nothing
flag_escalation(db, call_id, be) ==
    IF be = "memory" /\ call_id \in DOMAIN db.calls
    THEN [db EXCEPT !.calls[call_id].escalation_status = <<"Escalation", "Flagged">>]
    ELSE db

\* InMemoryDB.flag_escalation raises KeyError when the call has no row
FlagEscalationRaises(db, call_id, be) ==
    be = "memory" /\ call_id \notin DOMAIN db.calls

\* save_summary: stores the summary and marks the call processed
save_summary(db, call_id, summary) ==
    LET d1 == [db EXCEPT !.summaries = Put(db.summaries, call_id, GetOr(db.summaries, call_id, 0) + 1)]
    IN  IF call_id \in DOMAIN db.calls
        THEN [d1 EXCEPT !.calls[call_id].structured_summary = summary,
                        !.calls[call_id].status = "processed"]
        ELSE d1

DefaultSlots ==
    [driver_status |-> None, current_location |-> None, eta |-> None,
     emergency_type |-> None, emergency_location |-> None]

get_slot_memory(db, call_id) == GetOr(db.slot_memory, call_id, DefaultSlots)

\* a merge in which every update overwrites, None and "" included
MergeSlotsOverwriting(current, updates) ==
    [k \in DOMAIN current \cup DOMAIN updates |->
        IF k \in DOMAIN updates THEN updates[k] ELSE current[k]]

\* lines 155-159: the merge of update_slot_memory; None and "" never
\* overwrite
MergeSlots(current, updates) ==
    [k \in DOMAIN current \cup DOMAIN updates |->
        IF k \in DOMAIN updates /\ updates[k] # None /\ updates[k] # EmptyStr
        THEN updates[k]
        ELSE current[k]]

update_slot_memory(db, call_id, updates) ==
    [db EXCEPT !.slot_memory =
        Put(db.slot_memory, call_id, MergeSlots(get_slot_memory(db, call_id), updates))]

DefaultState ==
    [last_prompted_slot |-> "None", prompt_retries |-> 0, last_agent_message |-> NoneText]

get_conversation_state(db, call_id) == GetOr(db.conversation_state, call_id, DefaultState)

update_conversation_state(db, call_id, updates) ==
    LET current == get_conversation_state(db, call_id)
    IN  [db EXCEPT !.conversation_state =
            Put(db.conversation_state, call_id,
                [k \in DOMAIN current \cup DOMAIN updates |->
                    IF k \in DOMAIN updates THEN updates[k] ELSE current[k]])]

(***************************************************************************)
(* openai_client.py: what one call of the oracle can come back with        *)
(***************************************************************************)
OracleTextA == Say("Got it. Any delays or ETA?", <<>>)
OracleTextB == Say("Thanks for the update. Ending the call.", <<>>)
EmergencyNoted == Say("Emergency noted. A human dispatcher will call you back immediately.", <<>>)

\* decide_next_action after its retries: an object, a non-object, or the
\* error of the last attempt
DecideOutcomes ==
    { [kind |-> "dict", agent_text |-> OracleTextA, action |-> "ask_followup"],
      [kind |-> "dict", agent_text |-> NoneText, action |-> "continue"],
      [kind |-> "dict", agent_text |-> OracleTextB, action |-> "end_call"],
      [kind |-> "dict", agent_text |-> OracleTextA, action |-> "escalate"],
      [kind |-> "nondict"],
      [kind |-> "raise"] }

NoStructured == [kind |-> "None"]

\* emergency_protocol: not retried
EmergencyOutcomes ==
    { [kind |-> "dict", has_text |-> TRUE, agent_text |-> EmergencyNoted, action |-> "escalate",
       structured_emergency |->
            [kind |-> "dict", emergency_type |-> <<"Breakdown">>, emergency_location |-> None]],
      [kind |-> "dict", has_text |-> TRUE, agent_text |-> EmergencyNoted, action |-> "escalate",
       structured_emergency |->
            [kind |-> "dict", emergency_type |-> <<"Accident">>, emergency_location |-> <<"mile", "5">>]],
      [kind |-> "dict", has_text |-> TRUE, agent_text |-> OracleTextA, action |-> "continue",
       structured_emergency |-> NoStructured],
      [kind |-> "dict", has_text |-> FALSE, agent_text |-> NoneText, action |-> "escalate",
       structured_emergency |-> NoStructured],
      [kind |-> "nondict"],
      [kind |-> "raise"] }

SummaryDict(outcome, status, escalation) ==
    [kind |-> "dict", call_outcome |-> outcome, driver_status |-> status,
     current_location |-> None, eta |-> None, emergency_type |-> None,
     emergency_location |-> None, escalation_status |-> escalation,
     extraction_notes |-> "oracle"]

\* summarize after its retries
SummaryOutcomes ==
    { SummaryDict("Unknown", None, None),
      SummaryDict("In-Transit Update", <<"Delayed">>, None),
      [kind |-> "nondict"],
      [kind |-> "raise"] }

OracleFailed(outcome) == outcome.kind \in {"raise", "nondict"}

(***************************************************************************)
(* transcript_processor.py                                                 *)
(***************************************************************************)
FixedSummary(outcome, notes) ==
    [kind |-> "dict", call_outcome |-> outcome, driver_status |-> None,
     current_location |-> None, eta |-> None, emergency_type |-> None,
     emergency_location |-> None, escalation_status |-> None,
     extraction_notes |-> notes]

\* lines 46-52: the emergency details override the summarizer
WithEmergencyInfo(summary, emergency_info) ==
    LET s1 == [summary EXCEPT !.call_outcome = "Emergency Detected",
                              !.escalation_status = <<"Escalation", "Flagged">>]
        s2 == IF Truthy(emergency_info.emergency_type)
              THEN [s1 EXCEPT !.emergency_type = emergency_info.emergency_type]
              ELSE s1
    IN  IF Truthy(emergency_info.emergency_location)
        THEN [s2 EXCEPT !.emergency_location = emergency_info.emergency_location]
        ELSE s2

\* a merge that copies every slot, null ones included
MergeSlotsIntoSummaryAlways(summary, slots) ==
    IF summary.kind # "dict" THEN summary
    ELSE [k \in DOMAIN summary |-> IF k \in SlotKeySet THEN slots[k] ELSE summary[k]]

\* lines 53-69: every slot that has a value overwrites the summary's field
MergeSlotsIntoSummary(summary, slots) ==
    IF summary.kind # "dict" THEN summary
    ELSE [k \in DOMAIN summary |->
            IF k \in SlotKeySet /\ slots[k] # None THEN slots[k] ELSE summary[k]]

\* process_transcript_and_store: [db, raised]
process_transcript_and_store(db, call_id, emergency_info, noisy, no_response, sm, be, dbRaises) ==
    IF call_id \notin DOMAIN db.calls
    THEN [db |-> db, raised |-> (be = "supabase" /\ dbRaises)]
    ELSE IF ~noisy /\ ~no_response /\ sm.kind = "raise"
    THEN [db |-> db, raised |-> TRUE]
    ELSE IF ~noisy /\ ~no_response /\ sm.kind = "nondict" /\ emergency_info.kind = "dict"
    THEN [db |-> db, raised |-> TRUE]
    ELSE LET summary ==
                IF noisy THEN FixedSummary("Unknown", "Noisy - transcript low confidence")
                ELSE IF no_response
                THEN FixedSummary("No Response", "Driver did not provide substantive responses")
                ELSE IF emergency_info.kind = "dict"
                THEN WithEmergencyInfo(sm, emergency_info)
                ELSE sm
         IN  [db |-> save_summary(db, call_id,
                        MergeSlotsIntoSummary(summary, get_slot_memory(db, call_id))),
              raised |-> FALSE]

(***************************************************************************)
(* webhook.py: retell_webhook                                              *)
(***************************************************************************)
PleaseRepeat == Say("I didn't catch that, could you please repeat?", <<>>)
HandOffNoisy == Say("I am having trouble hearing you, please wait for a human dispatcher to call.", <<>>)
Clarify == Say("Could you clarify your status or location?", <<>>)
HandOffShort == Say("I'll have dispatch follow up shortly. Thank you.", <<>>)
ThanksEnding == Say("Thanks, ending the call.", <<>>)
Okay == Say("Okay.", <<>>)
GenericNudge == Say("If it's easier, just tell me one thing: your status, location, or ETA.", <<>>)

\* lines 237-247: the slot-specific rephrasing of the first retry
Rephrase(next_slot, prompt) ==
    CASE next_slot = "driver_status" -> Say("Thanks. Could you share your current status now?", <<>>)
      [] next_slot = "current_location" -> Say("And where are you at the moment?", <<>>)
      [] next_slot = "eta" -> Say("When do you expect to arrive?", <<>>)
      [] next_slot = "emergency_type" -> Say("What kind of emergency is it?", <<>>)
      [] next_slot = "emergency_location" -> Say("Where exactly is the emergency happening?", <<>>)
      [] OTHER -> prompt

\* line 161
IsNoisy(text, confidence) == confidence < 5 \/ Occurs(InaudibleMarker, Lower(text))

\* line 175
IsShort(text, speaker) == speaker = "driver" /\ WordCount(text) < 3

\* lines 204 and llm.py 547
IsFarewell(text) ==
    AnyOccurs(<< <<"bye">>, <<"goodbye">> >>, Lower(text)) \/ Occurs(<<"arrived">>, Lower(text))

\* what one run of a handler did: the storage it leaves, the texts it had
\* spoken, whether it raised to its caller, the body it returned, the
\* branch it took, whether the slot-driven block caught an exception and
\* whether an oracle call of the turn failed
Outcome(db, said, raised, result, path, caught, ofail) ==
    [db |-> db, said |-> said, raised |-> raised, result |-> result,
     path |-> path, caught |-> caught, ofail |-> ofail]

\* lines 141-154: slot memory and retry reset
\* a slot stage that would escalate on an emergency keyword by itself
SlotStageEscalating(db, call_id, text, speaker) ==
    IF speaker = "driver" /\ text # EmptyStr
    THEN IF detect_emergency_keywords(text)
         THEN flag_escalation(update_call_status(db, call_id, "completed"), call_id, "memory")
         ELSE db
    ELSE db

SlotStage(db, call_id, text, speaker) ==
    IF speaker = "driver" /\ text # EmptyStr
    THEN LET slot_updates == extract_slots(text)
             d1 == IF DOMAIN slot_updates # {}
                   THEN update_slot_memory(db, call_id, slot_updates)
                   ELSE db
             last_slot == get_conversation_state(d1, call_id).last_prompted_slot
         IN  IF last_slot # "None" /\ Truthy(Get(slot_updates, last_slot))
             THEN update_conversation_state(d1, call_id,
                    [prompt_retries |-> 0, last_prompted_slot |-> "None"])
             ELSE d1
    ELSE db

\* the noise branch handing off one low-confidence turn later
NoiseBranchLate(db, call_id, be, dbRaises, speak1) ==
    LET d1 == increment_noisy_counter(db, call_id)
        low_count == d1.noisy_counter[call_id]
    IN  IF low_count <= 3
        THEN IF speak1
             THEN Outcome(d1, <<PleaseRepeat>>, FALSE, "continued", "noise", FALSE, FALSE)
             ELSE Outcome(d1, <<>>, TRUE, "error", "noise", FALSE, FALSE)
        ELSE IF ~speak1
             THEN Outcome(d1, <<>>, TRUE, "error", "noise", FALSE, FALSE)
             ELSE LET p == process_transcript_and_store(
                                update_call_status(d1, call_id, "completed"),
                                call_id, NoStructured, TRUE, FALSE,
                                [kind |-> "raise"], be, dbRaises)
                  IN  Outcome(p.db, <<HandOffNoisy>>, p.raised,
                              IF p.raised THEN "error" ELSE "ended", "noise", FALSE, FALSE)

\* lines 160-172
NoiseBranch(db, call_id, be, dbRaises, speak1) ==
    LET d1 == increment_noisy_counter(db, call_id)
        low_count == d1.noisy_counter[call_id]
    IN  IF low_count <= 2
        THEN IF speak1
             THEN Outcome(d1, <<PleaseRepeat>>, FALSE, "continued", "noise", FALSE, FALSE)
             ELSE Outcome(d1, <<>>, TRUE, "error", "noise", FALSE, FALSE)
        ELSE IF ~speak1
             THEN Outcome(d1, <<>>, TRUE, "error", "noise", FALSE, FALSE)
             ELSE LET p == process_transcript_and_store(
                                update_call_status(d1, call_id, "completed"),
                                call_id, NoStructured, TRUE, FALSE,
                                [kind |-> "raise"], be, dbRaises)
                  IN  Outcome(p.db, <<HandOffNoisy>>, p.raised,
                              IF p.raised THEN "error" ELSE "ended", "noise", FALSE, FALSE)

\* the short-utterance branch handing off one short turn later
ShortBranchLate(db, call_id, be, dbRaises, speak1) ==
    LET d1 == increment_short_utterances(db, call_id)
        short_count == d1.short_counter[call_id]
    IN  IF short_count \in {1, 2, 3}
        THEN IF speak1
             THEN Outcome(d1, <<Clarify>>, FALSE, "followup", "short", FALSE, FALSE)
             ELSE Outcome(d1, <<>>, TRUE, "error", "short", FALSE, FALSE)
        ELSE IF ~speak1
             THEN Outcome(d1, <<>>, TRUE, "error", "short", FALSE, FALSE)
             ELSE LET p == process_transcript_and_store(
                                update_call_status(d1, call_id, "completed"),
                                call_id, NoStructured, FALSE, TRUE,
                                [kind |-> "raise"], be, dbRaises)
                  IN  Outcome(p.db, <<HandOffShort>>, p.raised,
                              IF p.raised THEN "error" ELSE "ended", "short", FALSE, FALSE)

\* lines 174-186
ShortBranch(db, call_id, be, dbRaises, speak1) ==
    LET d1 == increment_short_utterances(db, call_id)
        short_count == d1.short_counter[call_id]
    IN  IF short_count \in {1, 2}
        THEN IF speak1
             THEN Outcome(d1, <<Clarify>>, FALSE, "followup", "short", FALSE, FALSE)
             ELSE Outcome(d1, <<>>, TRUE, "error", "short", FALSE, FALSE)
        ELSE IF ~speak1
             THEN Outcome(d1, <<>>, TRUE, "error", "short", FALSE, FALSE)
             ELSE LET p == process_transcript_and_store(
                                update_call_status(d1, call_id, "completed"),
                                call_id, NoStructured, FALSE, TRUE,
                                [kind |-> "raise"], be, dbRaises)
                  IN  Outcome(p.db, <<HandOffShort>>, p.raised,
                              IF p.raised THEN "error" ELSE "ended", "short", FALSE, FALSE)

\* lines 188-196
\* response.get("structured_emergency"): the structured output of the
\* protocol, if it gave one
StructuredOf(em) == IF em.kind = "dict" THEN em.structured_emergency ELSE NoStructured

EmergencyBranch(db, call_id, be, dbRaises, speak1, em, sm) ==
    IF em.kind # "dict" \/ ~em.has_text
    THEN Outcome(db, <<>>, TRUE, "error", "emergency", FALSE, OracleFailed(em))
    ELSE IF ~speak1
    THEN Outcome(db, <<>>, TRUE, "error", "emergency", FALSE, FALSE)
    ELSE IF FlagEscalationRaises(db, call_id, be)
    THEN Outcome(db, <<em.agent_text>>, TRUE, "error", "emergency", FALSE, FALSE)
    ELSE LET p == process_transcript_and_store(
                        update_call_status(flag_escalation(db, call_id, be), call_id, "completed"),
                        call_id, em.structured_emergency, FALSE, FALSE, sm, be, dbRaises)
         IN  Outcome(p.db, <<em.agent_text>>, p.raised,
                     IF p.raised THEN "error" ELSE "escalated", "emergency", FALSE,
                     OracleFailed(sm) /\ call_id \in DOMAIN db.calls)

\* lines 198-253: the slot-driven block inside the try
SlotDriven(db, call_id, text, be, dbRaises, speak1, dec1, sm) ==
    LET slots == get_slot_memory(db, call_id)
        missing == get_missing_slots(slots)
        closing == polite_end_from_slots(slots)
        \* speak the closing text, mark the call completed, summarise
        Close(end_text, path, ofail) ==
            IF ~speak1
            THEN Outcome(db, <<>>, FALSE, "none", path, TRUE, ofail)
            ELSE LET p == process_transcript_and_store(
                                update_call_status(db, call_id, "completed"),
                                call_id, NoStructured, FALSE, FALSE, sm, be, dbRaises)
                 IN  Outcome(p.db, <<end_text>>, FALSE,
                             IF p.raised THEN "none" ELSE "ended", path, p.raised,
                             ofail \/ (OracleFailed(sm) /\ call_id \in DOMAIN db.calls))
    IN  IF IsFarewell(text)
        THEN Close(closing, "farewell", FALSE)
        ELSE IF missing = <<>>
        THEN IF TextTruthy(closing)
             THEN Close(closing, "close", FALSE)
             ELSE IF dec1.kind # "dict"
             THEN Outcome(db, <<>>, FALSE, "none", "close", TRUE, TRUE)
             ELSE Close(IF TextTruthy(dec1.agent_text) THEN dec1.agent_text ELSE ThanksEnding,
                        "close", FALSE)
        ELSE LET state == get_conversation_state(db, call_id)
                 next_slot == missing[1]
                 retries == state.prompt_retries
                 templated == build_followup_for_missing(missing)
                 prompt0 == IF TextTruthy(templated) THEN templated
                            ELSE IF TextTruthy(dec1.agent_text) THEN dec1.agent_text
                            ELSE Okay
                 prompt == IF retries = 1 THEN Rephrase(next_slot, prompt0)
                           ELSE IF retries >= 2 THEN GenericNudge
                           ELSE prompt0
             IN  IF ~TextTruthy(templated) /\ dec1.kind # "dict"
                 THEN Outcome(db, <<>>, FALSE, "none", "followup", TRUE, TRUE)
                 ELSE IF ~speak1
                 THEN Outcome(db, <<>>, FALSE, "none", "followup", TRUE, FALSE)
                 ELSE Outcome(
                        update_conversation_state(db, call_id,
                            [last_prompted_slot |-> next_slot, prompt_retries |-> retries + 1,
                             last_agent_message |-> prompt]),
                        <<prompt>>, FALSE, "ok", "followup", FALSE, FALSE)

\* lines 254-265: the except block that falls back to the oracle
Fallback(r, call_id, be, dbRaises, speak2, dec2, sm) ==
    IF dec2.kind # "dict"
    THEN Outcome(r.db, r.said, TRUE, "error", "fallback", TRUE, TRUE)
    ELSE IF ~speak2
    THEN Outcome(r.db, r.said, TRUE, "error", "fallback", TRUE, r.ofail)
    ELSE LET text == IF TextTruthy(dec2.agent_text) THEN dec2.agent_text ELSE Okay
             said == Append(r.said, text)
         IN  IF dec2.action \in {"end_call", "escalate"}
             THEN IF dec2.action = "escalate" /\ FlagEscalationRaises(r.db, call_id, be)
                  THEN Outcome(r.db, said, TRUE, "error", "fallback", TRUE, r.ofail)
                  ELSE LET d1 == IF dec2.action = "escalate"
                                 THEN flag_escalation(r.db, call_id, be)
                                 ELSE r.db
                           p == process_transcript_and_store(
                                    update_call_status(d1, call_id, "completed"),
                                    call_id, NoStructured, FALSE, FALSE, sm, be, dbRaises)
                       IN  Outcome(p.db, said, p.raised,
                                   IF p.raised THEN "error" ELSE "ok", "fallback", TRUE,
                                   r.ofail \/ (OracleFailed(sm) /\ call_id \in DOMAIN r.db.calls))
             ELSE Outcome(r.db, said, FALSE, "ok", "fallback", TRUE, r.ofail)

(***************************************************************************)
(* llm.py: retell_custom_llm_ws, the duplex channel                        *)
(***************************************************************************)
VARIABLES
    ws          \* the locals of the one duplex session and its socket

DefaultHello == Say("Hello, this is Dispatch. Can you give me a quick status update?", <<>>)
HelloHelp == Say("Hello, how can I help you today?", <<>>)
ShareStatus == Say("Could you share your current status: Driving, Delayed, or Arrived?", <<>>)
IUnderstand == Say("I understand.", <<>>)
DispatcherCallback == Say("A human dispatcher will call you back immediately.", <<>>)
ThanksConfirming == Say("Thanks for confirming. Drive safe - ending the call.", <<>>)
NoProblem == Say("No problem. What is your current status?", <<>>)

NoCaptured == [status |-> FALSE, location |-> FALSE, eta |-> FALSE]
NoSlotValues == [status |-> None, location |-> None, eta |-> None]

\* lines 82-88, before the socket is accepted
WsClosed ==
    [open |-> FALSE, call_id |-> "None", last_response_id_handled |-> -1,
     last_agent_text_sent |-> EmptyText, opening_sent |-> FALSE,
     awaiting_confirmation |-> FALSE, db_call_id |-> "", captured |-> NoCaptured,
     slot_values |-> NoSlotValues, ka_task |-> "none", transcript |-> <<>>, seen |-> {}]

\* one message of the transcript the provider sends along with a request
Msg(role, content) == [role |-> role, content |-> content]

\* the contents of the messages with role user, in order
RECURSIVE UserTexts(_)
UserTexts(transcript) ==
    IF transcript = <<>> THEN <<>>
    ELSE IF Head(transcript).role = "user"
    THEN <<Head(transcript).content>> \o UserTexts(Tail(transcript))
    ELSE UserTexts(Tail(transcript))

\* lines 280-287 and 326-330: the newest user text, empty when there is none
LastUser(transcript) ==
    LET texts == UserTexts(transcript)
    IN  IF texts = <<>> THEN EmptyStr ELSE texts[Len(texts)]

AffirmativeWords ==
    << <<"yes">>, <<"yeah">>, <<"yep">>, <<"correct">>, <<"right">>, <<"confirm">>,
       <<"confirmed">> >>
NegativeWords ==
    << <<"no">>, <<"nope">>, <<"incorrect">>, <<"not", "correct">>, <<"wrong">> >>
WsStatusWords == << <<"driving">>, <<"delayed">>, <<"arrived">>, <<"dispatched">> >>

\* line 320: the ETA pattern of the transcript scan
WsTranscriptEta(low) ==
    \/ Leftmost(EtaDigitAt, low) # None
    \/ Occurs(<<"noon">>, low) \/ Occurs(<<"midnight">>, low) \/ Occurs(<<"eta">>, low)
    \/ Leftmost(EtaRelAt, low) # None
    \/ Leftmost(EtaDayAt, low) # None

\* lines 309-323: captured flags recomputed over the whole transcript
RECURSIVE ScanTranscript(_, _, _)
ScanTranscript(transcript, n, captured) ==
    IF n > Len(transcript) THEN captured
    ELSE LET t == Lower(transcript[n])
         IN  ScanTranscript(transcript, n + 1,
                [status |-> captured.status \/ AnyOccurs(WsStatusWords, t),
                 location |-> captured.location \/ LocationMatch(t) # None,
                 eta |-> captured.eta \/ WsTranscriptEta(t)])

\* the ids the path of the socket can carry: the provider's id of a stored
\* call and one no row carries
WsRefs == {"call_1", "call_9"}

\* line 235: call_ref.startswith("call_")
IsRetellRef(call_ref) == call_ref \in {"call_1", "call_2", "call_9"}

\* lines 228-277: the row the session writes to; only a provider id that a
\* stored row carries sets db_call_id (InMemoryDB has no lookup by provider
\* id, the AttributeError is caught)
ResolveDbCallId(db, be, call_ref, db_call_id) ==
    IF /\ be = "supabase"
       /\ IsRetellRef(call_ref)
       /\ get_call_by_retell_id(db, call_ref) # "None"
    THEN get_call_by_retell_id(db, call_ref)
    ELSE db_call_id

WsMisspellings ==
    << <<"moutan", "Multan">>, <<"mudan", "Multan">>, <<"muzan", "Multan">>,
       <<"muntan", "Multan">>, <<"muntaan", "Multan">>, <<"lahar", "Lahore">> >>

\* lines 401-406: a trailing "right now", "currently" or "for now" is cut
StripFiller(loc) ==
    LET n == Len(loc)
        low == Lower(loc)
    IN  IF n >= 2 /\ low[n] = "now" /\ low[n - 1] \in {"right", "for"}
        THEN SubSeq(loc, 1, n - 2)
        ELSE IF n >= 1 /\ low[n] = "currently"
        THEN SubSeq(loc, 1, n - 1)
        ELSE loc

\* lines 393-446: the session's own capture of status, location and ETA
WsCapture(captured, slot_values, last_user) ==
    LET low == Lower(last_user)
        loc == LocationMatch(last_user)
        hasStatus == AnyOccurs(WsStatusWords, low)
        eta_digit == Leftmost(EtaDigitAt, low)
        eta_word == Leftmost(EtaWordAt, low)
        eta_rel == Leftmost(EtaRelAt, low)
        eta_day == Leftmost(EtaDayAt, low)
        hasEta == eta_digit # None \/ eta_word # None \/ eta_rel # None \/ Occurs(<<"eta">>, low)
        etaText == IF eta_digit # None THEN eta_digit
                   ELSE IF eta_word # None /\ eta_day # None THEN eta_day \o eta_word
                   ELSE IF eta_word # None THEN eta_word
                   ELSE IF eta_rel # None THEN eta_rel
                   ELSE slot_values.eta
    IN  [captured |->
            [status |-> captured.status \/ hasStatus,
             location |-> captured.location \/ loc # None,
             eta |-> captured.eta \/ hasEta],
         slot_values |->
            [status |-> IF hasStatus /\ ~Truthy(slot_values.status)
                        THEN <<Capitalize(WsStatusWords[FirstOccurring(WsStatusWords, low)][1])>>
                        ELSE slot_values.status,
             location |-> IF loc # None
                          THEN StripFiller(NormalizeFrom(WsMisspellings, 1, loc))
                          ELSE slot_values.location,
             eta |-> IF hasEta /\ ~Truthy(slot_values.eta) THEN etaText ELSE slot_values.eta]]

\* one write to a call's slot memory: the call and the fields it carries
SlotWrite(call_id, updates) == [call_id |-> call_id, updates |-> updates]

\* lines 450-460: the session's values fill the shared slots that are
\* empty; shared_slots is re-read after every write
Reconcile(db, db_call_id, captured, slot_values) ==
    LET Fill(st, flag, value, key) ==
            IF flag /\ Truthy(value) /\ ~Truthy(Get(st.shared_slots, key))
            THEN LET d == update_slot_memory(st.db, db_call_id, [k \in {key} |-> value])
                 IN  [db |-> d, shared_slots |-> get_slot_memory(d, db_call_id),
                      writes |-> Append(st.writes, SlotWrite(db_call_id, [k \in {key} |-> value]))]
            ELSE st
        s0 == [db |-> db,
               shared_slots |-> IF db_call_id # "" THEN get_slot_memory(db, db_call_id) ELSE <<>>,
               writes |-> <<>>]
        s1 == Fill(s0, captured.status, slot_values.status, "driver_status")
        s2 == Fill(s1, captured.location, slot_values.location, "current_location")
    IN  Fill(s2, captured.eta, slot_values.eta, "eta")

\* decision_current before any oracle call of the turn (line 344)
NoDecision == [kind |-> "empty"]

\* lines 552-554: the oracle's action ends the call
ActionEnds(decision_current) ==
    decision_current.kind = "dict" /\ decision_current.action \in {"end_call", "escalate"}

\* what the response generation leaves: storage, session locals, the text,
\* end_now_affirm, decision_current, whether an oracle call failed, the
\* slot-memory writes it made and whether the oracle is still to be asked
Generated(db, w, agent_text, end_now_affirm, decision_current, path, ofail, writes, consult) ==
    [db |-> db, w |-> w, agent_text |-> agent_text, end_now_affirm |-> end_now_affirm,
     decision_current |-> decision_current, path |-> path, ofail |-> ofail,
     writes |-> writes, consult |-> consult]

\* lines 356-368: a pending confirmation is handled first
Confirmation(w, last_user) ==
    IF w.awaiting_confirmation /\ AnyOccurs(AffirmativeWords, Lower(last_user))
    THEN [w |-> [w EXCEPT !.awaiting_confirmation = FALSE],
          agent_text |-> ThanksConfirming, end_now_affirm |-> TRUE]
    ELSE IF w.awaiting_confirmation /\ AnyOccurs(NegativeWords, Lower(last_user))
    THEN [w |-> [w EXCEPT !.awaiting_confirmation = FALSE, !.captured = NoCaptured],
          agent_text |-> NoProblem, end_now_affirm |-> FALSE]
    ELSE [w |-> w, agent_text |-> EmptyText, end_now_affirm |-> FALSE]

\* lines 370-388: the emergency branch of the duplex turn
WsEmergency(db, w, c, be, em, writes) ==
    IF em.kind # "dict"
    THEN Generated(db, w, IUnderstand, c.end_now_affirm,
                   IF em.kind = "raise" THEN NoDecision ELSE em, "emergency", TRUE, writes,
                   FALSE)
    ELSE LET structured == em.structured_emergency.kind = "dict" /\ w.db_call_id # ""
             emergency_updates ==
                [emergency_type |-> em.structured_emergency.emergency_type,
                 emergency_location |-> em.structured_emergency.emergency_location]
         IN  Only({ Generated(IF em.action = "escalate" /\ w.db_call_id # ""
                              THEN flag_escalation(d1, w.db_call_id, be)
                              ELSE d1,
                              w,
                              IF em.has_text /\ TextTruthy(em.agent_text) THEN em.agent_text
                              ELSE DispatcherCallback,
                              c.end_now_affirm, em, "emergency", FALSE,
                              IF structured
                              THEN Append(writes, SlotWrite(w.db_call_id, emergency_updates))
                              ELSE writes,
                              FALSE)
                    : d1 \in {IF structured
                              THEN update_slot_memory(db, w.db_call_id, emergency_updates)
                              ELSE db} })

\* lines 461-466: the slot-driven text for the reconciled slots; an empty
\* or placeholder text leaves the oracle guard of line 488 to run
SlotDrivenText(rec, w1, c, writes) ==
    Only({ Only({ Generated(rec.db, w1, text, c.end_now_affirm \/ missing = <<>>, NoDecision,
                            IF missing = <<>> THEN "close" ELSE "followup", FALSE,
                            writes \o rec.writes,
                            ~(TextTruthy(text) /\ text # Okay))
                  : text \in {IF missing = <<>> THEN polite_end_from_slots(rec.shared_slots)
                              ELSE build_followup_for_missing(missing)} })
           : missing \in {get_missing_slots(rec.shared_slots)} })

\* lines 389-466: capture, reconciliation, slot-driven text
WsSlotDriven(db, w, c, last_user, writes) ==
    Only({ Only({ SlotDrivenText(rec, w1, c, writes)
                  : rec \in {Reconcile(db, w.db_call_id, cap.captured, cap.slot_values)},
                    w1 \in {[w EXCEPT !.captured = cap.captured,
                                      !.slot_values = cap.slot_values]} })
           : cap \in {WsCapture(w.captured, w.slot_values, last_user)} })

\* lines 339-515 up to the oracle calls of lines 502 and 511
WsGenerate(db, w, be, last_user, em) ==
    IF last_user # EmptyStr
    THEN Only({ Only({ IF detect_emergency_keywords(last_user)
                       THEN WsEmergency(pre.db, c.w, c, be, em, pre.writes)
                       ELSE WsSlotDriven(pre.db, c.w, c, last_user, pre.writes)
                       : pre \in {IF w.db_call_id # "" /\ DOMAIN updates # {}
                                  THEN [db |-> update_slot_memory(db, w.db_call_id, updates),
                                        writes |-> <<SlotWrite(w.db_call_id, updates)>>]
                                  ELSE [db |-> db, writes |-> <<>>]},
                         c \in {Confirmation(w, last_user)} })
                : updates \in {extract_slots(last_user)} })
    ELSE IF w.opening_sent
    THEN Generated(db, w, ShareStatus, FALSE, NoDecision, "no_input", FALSE, <<>>, FALSE)
    ELSE Generated(db, w, EmptyText, FALSE, NoDecision, "no_input", FALSE, <<>>, TRUE)

\* lines 486-505 and 511-515: the oracle decides the text the templates
\* did not give
WsGuard(g, decG) ==
    IF ~g.consult THEN g
    ELSE IF g.path = "no_input"
    THEN IF decG.kind # "dict"
         THEN [g EXCEPT !.agent_text = IUnderstand, !.ofail = TRUE]
         ELSE [g EXCEPT !.agent_text = IF TextTruthy(decG.agent_text) THEN decG.agent_text
                                       ELSE HelloHelp]
    ELSE IF decG.kind = "raise"
    THEN [g EXCEPT !.ofail = TRUE]
    ELSE IF decG.kind = "nondict"
    THEN [g EXCEPT !.decision_current = decG, !.ofail = TRUE]
    ELSE [g EXCEPT !.decision_current = decG,
                   !.agent_text = IF TextTruthy(decG.agent_text) THEN decG.agent_text
                                  ELSE IF TextTruthy(@) THEN @ ELSE Okay]

\* lines 517-532: identical text is not sent back-to-back
AvoidRepeat(g, last_agent_text_sent, decR1, decR2) ==
    IF g.agent_text # last_agent_text_sent
    THEN g
    ELSE IF decR1.kind = "raise"
    THEN [g EXCEPT !.ofail = TRUE]
    ELSE IF decR1.kind = "nondict"
    THEN [g EXCEPT !.decision_current = decR1, !.ofail = TRUE]
    ELSE IF TextTruthy(decR1.agent_text) /\ decR1.agent_text # g.agent_text
    THEN [g EXCEPT !.decision_current = decR1, !.agent_text = decR1.agent_text]
    ELSE IF decR2.kind = "raise"
    THEN [g EXCEPT !.decision_current = decR1, !.ofail = TRUE]
    ELSE IF decR2.kind = "nondict"
    THEN [g EXCEPT !.decision_current = decR2, !.ofail = TRUE]
    ELSE [g EXCEPT !.decision_current = decR2,
                   !.agent_text = IF TextTruthy(decR2.agent_text) THEN decR2.agent_text
                                  ELSE g.agent_text]

\* lines 544-563: the end_call flag of the response
EndCall(g, last_user) ==
    \/ IsFarewell(last_user)
    \/ ActionEnds(g.decision_current)
    \/ g.end_now_affirm
    \/ (g.w.captured.status /\ g.w.captured.location /\ g.w.captured.eta)

\* lines 566-606 after the response was sent: transcript, session locals,
\* completion, summary and the closing of the socket
AfterSend(g, response_id, end_call, sm, be) ==
    LET id == g.w.db_call_id
        w1 == [g.w EXCEPT !.last_response_id_handled = response_id,
                          !.last_agent_text_sent = g.agent_text]
    IN  Only({ IF end_call /\ id # ""
               THEN Only({ [db |-> p.db,
                            w |-> IF p.raised THEN w1
                                  ELSE [w1 EXCEPT !.open = FALSE, !.ka_task = "cancelled"],
                            ofail |-> OracleFailed(sm)]
                           : p \in {process_transcript_and_store(
                                        append_transcript(
                                            update_call_status(d1, id, "completed"), id),
                                        id, NoStructured, FALSE, FALSE, sm, be, FALSE)} })
               ELSE [db |-> d1, w |-> w1, ofail |-> FALSE]
               : d1 \in {IF id # "" /\ TextTruthy(g.agent_text)
                         THEN append_transcript(g.db, id) ELSE g.db} })

(***************************************************************************)
(* Inputs                                                                  *)
(***************************************************************************)
Event(event_type, text, speaker, confidence) ==
    [event_type |-> event_type, text |-> text, speaker |-> speaker, confidence |-> confidence]

\* driver utterances the provider delivers; confidence is in tenths
Utterances ==
    { <<>>,
      <<"ok">>,
      <<"bye">>,
      <<"driving", "crash">>,
      <<"i", "am", "driving", "but", "There", "was", "a", "Crash">>,
      <<"i", "am", "delayed">>,
      <<"driving", "at", "Indio", "5pm">>,
      <<"accident", "at", "Indio">>,
      <<"crash", "[inaudible]", "near", "Indio">> }

\* the speech events of the webhook channel
SpeechEvents ==
    { Event("speech", text, "driver", 10) : text \in Utterances }
    \cup { Event("speech", <<"i", "am", "delayed">>, "driver", 3),
           Event("speech", <<"i", "am", "driving", "but", "There", "was", "a", "Crash">>, "driver", 3),
           Event("transcript_update", <<"i", "am", "delayed">>, "agent", 10),
           Event("update_only", <<"driving", "at", "Indio", "5pm">>, "driver", 10),
           Event("update_only", <<"driving", "crash">>, "driver", 3) }

(***************************************************************************)
(* Observation of the handlers                                             *)
(***************************************************************************)
VARIABLES
    events,     \* number of inbound events handled so far
    spoken,     \* call id -> the text most recently spoken to the driver
    turn,       \* the event handled last and what its handler did
    inflight    \* webhook request -> where its handler is suspended, and its locals

vars ==
    <<SLOT_HEURISTICS_ENABLED, SLOT_TEXT_TEMPLATES_ENABLED, uuids, backend, calls,
      transcripts, summaries, noisy_counter, short_counter, slot_memory,
      conversation_state, ws, events, spoken, turn, inflight>>

NoTurn ==
    [chan |-> "none", event_type |-> "none", call_id |-> "None", text |-> <<>>,
     speaker |-> "None", confidence |-> 10, path |-> "none", said |-> <<>>,
     raised |-> FALSE, result |-> "none", prev_said |-> NoneText, ofail |-> FALSE,
     response_id |-> -1, seen_before |-> FALSE, end_call |-> FALSE, writes |-> <<>>,
     speak_failed |-> FALSE, structured_emergency |-> NoStructured]

\* the webhook requests the server can be handling together, and the
\* locals of a handler that has not started
Handlers == 1..MaxHandlers
Idle ==
    [pc |-> "idle", call_id |-> "None", ev |-> [event_type |-> "none"],
     next_slot |-> "None", retries |-> 0, prompt |-> NoneText]

\* a field of an outcome that only some handlers report
Opt(r, field, default) == IF field \in DOMAIN r THEN r[field] ELSE default

\* the handler's outcome becomes the new state
CommitDb(r, chan, call_id, ev) ==
    /\ calls' = r.db.calls
    /\ transcripts' = r.db.transcripts
    /\ summaries' = r.db.summaries
    /\ noisy_counter' = r.db.noisy_counter
    /\ short_counter' = r.db.short_counter
    /\ slot_memory' = r.db.slot_memory
    /\ conversation_state' = r.db.conversation_state
    /\ uuids' = uuids \ DOMAIN r.db.calls
    /\ events' = events + (IF ev.event_type \in {"start_call", "connect", "disconnect"} THEN 0 ELSE 1)
    /\ spoken' = IF r.said # <<>> THEN Put(spoken, call_id, r.said[Len(r.said)]) ELSE spoken
    /\ turn' = [chan |-> chan, event_type |-> ev.event_type, call_id |-> call_id,
                text |-> ev.text, speaker |-> ev.speaker, confidence |-> ev.confidence,
                path |-> r.path, said |-> r.said, raised |-> r.raised,
                result |-> r.result, prev_said |-> GetOr(spoken, call_id, NoneText),
                ofail |-> r.ofail,
                response_id |-> Opt(r, "response_id", -1),
                seen_before |-> Opt(r, "seen_before", FALSE),
                end_call |-> Opt(r, "end_call", FALSE),
                writes |-> Opt(r, "writes", <<>>),
                speak_failed |-> Opt(r, "speak_failed", FALSE),
                structured_emergency |-> Opt(r, "structured_emergency", NoStructured)]
    /\ UNCHANGED <<SLOT_HEURISTICS_ENABLED, SLOT_TEXT_TEMPLATES_ENABLED, backend>>

\* an outcome of the webhook or of the REST API: the duplex session is
\* not touched
Commit(r, chan, call_id, ev) == CommitDb(r, chan, call_id, ev) /\ UNCHANGED <<ws, inflight>>

\* an event that carries no speech
Bare(event_type) == Event(event_type, <<>>, "None", 10)

\* call ids an inbound webhook event can carry
WebhookCallIds == DOMAIN calls \cup ForeignIds

\* what a query for a row that does not exist does in SupabaseDB is the
\* database client's choice
DbRaisesChoices(call_id) ==
    IF backend = "supabase" /\ call_id \notin DOMAIN calls THEN BOOLEAN ELSE {FALSE}

UnusedDecision == [kind |-> "dict", agent_text |-> NoneText, action |-> "continue"]
UnusedSummary == [kind |-> "raise"]

\* the slot-driven block consults the oracle only when the templates gave
\* no text (lines 214 and 231)
Dec1Choices(text) ==
    IF ~IsFarewell(text) /\ ~SLOT_TEXT_TEMPLATES_ENABLED THEN DecideOutcomes
    ELSE {UnusedDecision}

\* the slot-driven block summarises only when it closes the call
Sm1Choices(db, call_id, text) ==
    IF /\ call_id \in DOMAIN db.calls
       /\ (IsFarewell(text) \/ get_missing_slots(get_slot_memory(db, call_id)) = <<>>)
    THEN SummaryOutcomes
    ELSE {UnusedSummary}

\* lines 141-145: the slot-memory write of the slot stage
SlotStageWrites(call_id, text, speaker) ==
    IF speaker = "driver" /\ text # EmptyStr /\ DOMAIN extract_slots(text) # {}
    THEN <<SlotWrite(call_id, extract_slots(text))>>
    ELSE <<>>

\* lines 132-265: a speech, update_only or transcript_update event
Speech(call_id, ev) ==
    /\ \E dbRaises \in DbRaisesChoices(call_id), d0 \in {append_transcript(Db, call_id)} :
        \E d1 \in {SlotStage(d0, call_id, ev.text, ev.speaker)},
           wr \in {[writes |-> SlotStageWrites(call_id, ev.text, ev.speaker)]} :
        LET Done(r, speak_failed) ==
                \E o \in {r @@ wr @@ [speak_failed |-> speak_failed]} :
                    Commit(o, "webhook", call_id, ev)
        IN  IF AppendTranscriptRaises(Db, call_id, backend, dbRaises)
            THEN Commit(Outcome(d0, <<>>, TRUE, "error", "append", FALSE, FALSE),
                        "webhook", call_id, ev)
            ELSE IF ev.event_type = "update_only"
            THEN Done(Outcome(d1, <<>>, FALSE, "updated", "update_only", FALSE, FALSE), FALSE)
            ELSE IF IsNoisy(ev.text, ev.confidence)
            THEN \E speak1 \in BOOLEAN :
                    Done(NoiseBranch(d1, call_id, backend, dbRaises, speak1), ~speak1)
            ELSE IF IsShort(ev.text, ev.speaker)
            THEN \E speak1 \in BOOLEAN :
                    Done(ShortBranch(d1, call_id, backend, dbRaises, speak1), ~speak1)
            ELSE IF detect_emergency_keywords(ev.text)
            THEN \E speak1 \in BOOLEAN, em \in EmergencyOutcomes :
                    \E sm \in (IF speak1 /\ em.kind = "dict" /\ call_id \in DOMAIN calls
                               THEN SummaryOutcomes ELSE {UnusedSummary}) :
                        Done(EmergencyBranch(d1, call_id, backend, dbRaises, speak1, em, sm)
                                @@ [structured_emergency |-> StructuredOf(em)],
                             ~speak1)
            ELSE \E speak1 \in BOOLEAN, dec1 \in Dec1Choices(ev.text) :
                    \E sm \in (IF speak1 THEN Sm1Choices(d1, call_id, ev.text)
                               ELSE {UnusedSummary}) :
                        \E r \in {SlotDriven(d1, call_id, ev.text, backend, dbRaises,
                                            speak1, dec1, sm)} :
                            IF r.caught
                            THEN \E speak2 \in BOOLEAN, dec2 \in DecideOutcomes :
                                    Done(Fallback(r, call_id, backend, dbRaises, speak2, dec2, sm),
                                         ~speak1 \/ ~speak2)
                            ELSE Done(r, ~speak1)

WebhookSpeech(call_id, ev) == events < MaxEvents /\ Speech(call_id, ev)

\* lines 110-130: call.started
WebhookCallStarted(call_id) ==
    /\ events < MaxEvents
    /\ \E dbRaises \in DbRaisesChoices(call_id) :
        LET Done(r) == Commit(r, "webhook", call_id, Bare("call.started"))
        IN  IF dbRaises
            THEN Done(Outcome(Db, <<>>, TRUE, "error", "call.started", FALSE, FALSE))
            ELSE IF call_id \in DOMAIN calls
            THEN Done(Outcome(update_call_status(Db, call_id, "in_progress"),
                              <<>>, FALSE, "ok", "call.started", FALSE, FALSE))
            ELSE IF uuids # {}
            THEN \E cid \in uuids :
                    Done(Outcome(update_call_status(create_call(Db, cid), call_id, "in_progress"),
                                 <<>>, FALSE, "ok", "call.started", FALSE, FALSE))
            ELSE Done(Outcome(Db, <<>>, FALSE, "ok", "call.started", TRUE, FALSE))

\* lines 267-271: call.ended
WebhookCallEnded(call_id) ==
    /\ events < MaxEvents
    /\ \E dbRaises \in DbRaisesChoices(call_id),
          sm \in (IF call_id \in DOMAIN calls THEN SummaryOutcomes ELSE {UnusedSummary}) :
        LET p == process_transcript_and_store(
                    update_call_status(Db, call_id, "completed"),
                    call_id, NoStructured, FALSE, FALSE, sm, backend, dbRaises)
        IN  Commit(Outcome(p.db, <<>>, p.raised, IF p.raised THEN "error" ELSE "ok",
                           "call.ended", FALSE,
                           OracleFailed(sm) /\ call_id \in DOMAIN calls),
                   "webhook", call_id, Bare("call.ended"))

(***************************************************************************)
(* calls.py                                                                *)
(***************************************************************************)
\* the provider's id for the call a record stands for
RetellId(cid) == IF cid = "c1" THEN "call_1" ELSE "call_2"

\* start_call: simulate, provider without API key, provider accepted,
\* provider failed
StartModes == {"simulate", "nokey", "accepted", "error"}

start_call(mode) ==
    /\ \E cid \in uuids :
        LET d0 == create_call(Db, cid)
            d1 == CASE mode = "simulate" -> update_call_status(d0, cid, "in_progress")
                    [] mode = "nokey" -> d0
                    [] mode = "accepted" ->
                            IF backend = "supabase"
                            THEN update_retell_call_id(d0, cid, RetellId(cid))
                            ELSE update_call_status(d0, cid, "failed")
                    [] mode = "error" -> update_call_status(d0, cid, "failed")
            failed == d1.calls[cid].status = "failed"
        IN  /\ Commit(Outcome(d1, <<>>, failed, IF failed THEN "error" ELSE "queued",
                              "start_call", FALSE, FALSE),
                      "api", cid, Bare("start_call"))

\* process_call: reprocess a call's transcript
process_call(call_id) ==
    /\ events < MaxEvents
    /\ call_id \in DOMAIN calls
    /\ \E sm \in SummaryOutcomes :
        LET p == process_transcript_and_store(Db, call_id, NoStructured, FALSE, FALSE, sm,
                                              backend, FALSE)
        IN  Commit(Outcome(p.db, <<>>, p.raised, IF p.raised THEN "error" ELSE "processed",
                           "process_call", FALSE, OracleFailed(sm)),
                   "api", call_id, Bare("process_call"))

(***************************************************************************)
(* llm.py: the duplex session's steps                                      *)
(***************************************************************************)
\* the duplex outcome becomes the new state
CommitWs(r, w, ev) ==
    /\ CommitDb(r, "ws", ws.call_id, ev)
    /\ ws' = w
    /\ UNCHANGED inflight

\* a step of the session that touches no storage
WsStep(event_type, path, said, raised, w) ==
    CommitWs(Outcome(Db, said, raised, IF raised THEN "error" ELSE "ok", path, FALSE, FALSE),
             w, Bare(event_type))

\* lines 77-156: the socket is accepted, the keepalive task starts, the
\* greeting is asked of the oracle and sent
WsConnect(call_ref, greeting_decision, sent) ==
    /\ ws.call_id = "None"
    /\ LET opening == greeting_decision.kind = "dict" /\ sent
           opening_text == IF greeting_decision.kind = "dict"
                              /\ TextTruthy(greeting_decision.agent_text)
                           THEN greeting_decision.agent_text
                           ELSE DefaultHello
           w == [WsClosed EXCEPT
                    !.open = TRUE, !.call_id = call_ref, !.ka_task = "running",
                    !.opening_sent = opening,
                    !.last_agent_text_sent = IF opening THEN opening_text ELSE EmptyText,
                    !.transcript = IF opening THEN <<Msg("agent", opening_text)>> ELSE <<>>]
       IN  /\ CommitDb(Outcome(Db, IF opening THEN <<opening_text>> ELSE <<>>, FALSE, "ok",
                               "connect", FALSE, OracleFailed(greeting_decision))
                         @@ [ofail |-> OracleFailed(greeting_decision)],
                       "ws", call_ref, Bare("connect"))
           /\ ws' = w
           /\ UNCHANGED inflight

\* lines 190-196: ping_pong is answered and nothing else happens
WsPing ==
    /\ ws.open
    /\ events < MaxWsEvents
    /\ WsStep("ping_pong", "ping_pong", <<>>, FALSE, ws)

\* lines 199-212: the slot memory is refreshed from the user messages
\* among the last three of the transcript
RECURSIVE RefreshSlots(_, _, _)
RefreshSlots(st, db_call_id, texts) ==
    IF texts = <<>> THEN st
    ELSE LET updates == extract_slots(Head(texts))
         IN  IF DOMAIN updates # {} /\ db_call_id # ""
             THEN RefreshSlots(
                    [db |-> update_slot_memory(st.db, db_call_id, updates),
                     writes |-> Append(st.writes, SlotWrite(db_call_id, updates))],
                    db_call_id, Tail(texts))
             ELSE RefreshSlots(st, db_call_id, Tail(texts))

LastThree(transcript) ==
    SubSeq(transcript, IF Len(transcript) > 3 THEN Len(transcript) - 2 ELSE 1, Len(transcript))

\* lines 199-212: a message that asks for no response
WsUpdate(text) ==
    /\ ws.open
    /\ events < MaxWsEvents
    /\ \E transcript \in {Append(ws.transcript, Msg("user", text))} :
        \E st \in {RefreshSlots([db |-> Db, writes |-> <<>>], ws.db_call_id,
                                UserTexts(LastThree(transcript)))} :
            CommitWs(Outcome(st.db, <<>>, FALSE, "skipped", "update_only", FALSE, FALSE)
                        @@ [writes |-> st.writes],
                     [ws EXCEPT !.transcript = transcript],
                     Event("update_only", text, "driver", 10))

\* what the provider says in a request for a response: a new user
\* message, or none (a reminder, or the request delivered again)
NoNewText == <<"-">>
WsUtterances ==
    { <<"i", "am", "delayed">>,
      <<"driving", "at", "Indio", "5pm">>,
      <<"accident", "at", "Indio">>,
      <<"bye">> }

\* the requests for a response: a new user message asks for a response, a
\* silent user gets a reminder, and either request can be delivered again
WsRequests ==
    { [interaction_type |-> "response_required", text |-> text] :
            text \in WsUtterances \cup {NoNewText} }
    \cup { [interaction_type |-> "reminder_required", text |-> NoNewText] }

\* the greeting the oracle gives when the session opens
GreetingOutcomes ==
    { [kind |-> "dict", agent_text |-> NoneText, action |-> "continue"],
      [kind |-> "raise"] }

\* the oracle is asked only where the code asks it
EmChoices(last_user) ==
    IF last_user # EmptyStr /\ detect_emergency_keywords(last_user)
    THEN EmergencyOutcomes ELSE {[kind |-> "raise"]}

DecGChoices(g) == IF g.consult THEN DecideOutcomes ELSE {UnusedDecision}

DecRChoices(g, last_agent_text_sent) ==
    IF g.agent_text = last_agent_text_sent THEN DecideOutcomes ELSE {UnusedDecision}

\* lines 214-606: response_required or reminder_required
WsTurn(response_id, interaction_type, text) ==
    /\ ws.open
    /\ events < MaxWsEvents
    /\ LET ev == Event(interaction_type, IF text = NoNewText THEN EmptyStr ELSE text,
                       "driver", 10)
           seen_before == response_id \in ws.seen
           Obs(end_call, writes) ==
                [response_id |-> response_id, seen_before |-> seen_before,
                 end_call |-> end_call, writes |-> writes]
           Em(g, em) ==
                [structured_emergency |->
                    IF g.path = "emergency" THEN StructuredOf(em) ELSE NoStructured]
       IN  IF response_id # 0 /\ response_id = ws.last_response_id_handled
           THEN CommitWs(Outcome(Db, <<>>, FALSE, "skipped", "duplicate", FALSE, FALSE)
                            @@ Obs(FALSE, <<>>),
                         ws, ev)
           ELSE \E transcript \in {IF text = NoNewText THEN ws.transcript
                                   ELSE Append(ws.transcript, Msg("user", text))} :
                \E last_user \in {LastUser(transcript)},
                   db_call_id \in {ResolveDbCallId(Db, backend, ws.call_id, ws.db_call_id)} :
                \E d0 \in {IF db_call_id # "" /\ last_user # EmptyStr
                           THEN append_transcript(Db, db_call_id) ELSE Db},
                   w0 \in {[ws EXCEPT !.db_call_id = db_call_id,
                                      !.transcript = transcript,
                                      !.captured = ScanTranscript(UserTexts(transcript), 1,
                                                                  ws.captured)]} :
                \E em \in EmChoices(last_user) :
                \E g1 \in {WsGenerate(d0, w0, backend, last_user, em)} :
                \E decG \in DecGChoices(g1) :
                \E g0 \in {WsGuard(g1, decG)} :
                \E decR1 \in DecRChoices(g0, ws.last_agent_text_sent) :
                \E decR2 \in (IF decR1.kind = "dict"
                                 /\ ~(TextTruthy(decR1.agent_text)
                                      /\ decR1.agent_text # g0.agent_text)
                              THEN DecRChoices(g0, ws.last_agent_text_sent)
                              ELSE {UnusedDecision}) :
                \E g \in {AvoidRepeat(g0, ws.last_agent_text_sent, decR1, decR2)} :
                \E end_call \in {EndCall(g, last_user)}, sent \in BOOLEAN :
                \E sm \in (IF sent /\ end_call /\ db_call_id # ""
                           THEN SummaryOutcomes ELSE {UnusedSummary}) :
                    IF ~sent
                    THEN CommitWs(Outcome(g.db, <<>>, TRUE, "error", g.path, FALSE, g.ofail)
                                    @@ Obs(end_call, g.writes) @@ [speak_failed |-> TRUE]
                                    @@ Em(g, em),
                                  [g.w EXCEPT !.open = FALSE, !.ka_task = "cancelled"], ev)
                    ELSE \E a \in {AfterSend(g, response_id, end_call, sm, backend)} :
                            CommitWs(Outcome(a.db, <<g.agent_text>>, FALSE,
                                             IF end_call THEN "end_call" ELSE "continue",
                                             g.path, FALSE, g.ofail \/ a.ofail)
                                        @@ Obs(end_call, g.writes) @@ Em(g, em),
                                     [a.w EXCEPT !.seen = @ \cup {response_id},
                                                 !.transcript =
                                                    IF TextTruthy(g.agent_text)
                                                    THEN Append(@, Msg("agent", g.agent_text))
                                                    ELSE @],
                                     ev)

\* a teardown that leaves the keepalive task as it is
WsDisconnectLeaking ==
    /\ ws.open
    /\ WsStep("disconnect", "disconnect", <<>>, FALSE, [ws EXCEPT !.open = FALSE])

\* lines 161-180 and 607-620: the provider goes away; the receive fails,
\* the loop is left and the keepalive task is cancelled
WsDisconnect ==
    /\ ws.open
    /\ WsStep("disconnect", "disconnect", <<>>, FALSE,
              [ws EXCEPT !.open = FALSE, !.ka_task = "cancelled"])

\* a keepalive task whose failed send would take the session down with it
WsKeepaliveAborting(sent) ==
    /\ ws.ka_task = "running"
    /\ events < MaxWsEvents
    /\ WsStep("keepalive", "keepalive", <<>>, ~sent,
              IF sent THEN ws ELSE [WsClosed EXCEPT !.ka_task = "done"])

\* lines 90-99: one round of the keepalive task; a failed send ends it
WsKeepalive(sent) ==
    /\ ws.ka_task = "running"
    /\ events < MaxWsEvents
    /\ WsStep("keepalive", "keepalive", <<>>, FALSE,
              IF sent THEN ws ELSE [ws EXCEPT !.ka_task = "done"])

(***************************************************************************)
(* The webhook channel                                                     *)
(***************************************************************************)
Init ==
    /\ SLOT_HEURISTICS_ENABLED \in BOOLEAN
    /\ SLOT_TEXT_TEMPLATES_ENABLED \in BOOLEAN
    /\ backend \in {"memory", "supabase"}
    /\ uuids = {"c1"}
    /\ calls = <<>>
    /\ transcripts = <<>>
    /\ summaries = <<>>
    /\ noisy_counter = <<>>
    /\ short_counter = <<>>
    /\ slot_memory = <<>>
    /\ conversation_state = <<>>
    /\ ws = WsClosed
    /\ events = 0
    /\ spoken = <<>>
    /\ turn = NoTurn
    /\ inflight = [h \in Handlers |-> Idle]

Next ==
    \/ \E mode \in StartModes : start_call(mode)
    \/ \E call_id \in WebhookCallIds : WebhookCallStarted(call_id)
    \/ \E call_id \in WebhookCallIds, ev \in SpeechEvents : WebhookSpeech(call_id, ev)
    \/ \E call_id \in WebhookCallIds : WebhookCallEnded(call_id)
    \/ \E call_id \in DOMAIN calls : process_call(call_id)

Spec == Init /\ [][Next]_vars

(***************************************************************************)
(* The duplex channel                                                      *)
(***************************************************************************)
\* the REST API creates a call the provider accepted; the provider opens
\* the session of a call after the call was started
StartAccepted == ws.call_id = "None" /\ start_call("accepted")

NextWs ==
    \/ StartAccepted
    \/ \E call_ref \in WsRefs, greeting_decision \in GreetingOutcomes, sent \in BOOLEAN :
            WsConnect(call_ref, greeting_decision, sent)
    \/ WsPing
    \/ \E text \in WsUtterances : WsUpdate(text)
    \/ \E response_id \in 0..MaxResponseId, req \in WsRequests :
            WsTurn(response_id, req.interaction_type, req.text)
    \/ WsDisconnect
    \/ \E sent \in BOOLEAN : WsKeepalive(sent)

SpecWs == Init /\ [][NextWs]_vars

(***************************************************************************)
(* The writers of a call's slot memory on both channels; the telephony     *)
(* and the socket deliver what the engine sends                            *)
(***************************************************************************)
SlotEvents ==
    { Event("speech", <<"accident", "at", "Indio">>, "driver", 10),
      Event("update_only", <<"driving", "at", "Indio", "5pm">>, "driver", 10) }

GreetingA == [kind |-> "dict", agent_text |-> OracleTextA, action |-> "ask_followup"]

SlotsConnect == WsConnect("call_1", GreetingA, TRUE)

SlotsWsTurn(text) ==
    /\ events < MaxSlotEvents
    /\ WsTurn(events + 1, "response_required", text)
    /\ ~turn'.speak_failed

SlotsWsUpdate(text) == events < MaxSlotEvents /\ WsUpdate(text)

SlotsWebhook(call_id, ev) ==
    /\ events < MaxSlotEvents
    /\ Speech(call_id, ev)
    /\ ~turn'.speak_failed

NextSlots ==
    \/ StartAccepted
    \/ SlotsConnect
    \/ \E text \in WsUtterances : SlotsWsTurn(text)
    \/ \E text \in WsUtterances : SlotsWsUpdate(text)
    \/ \E call_id \in DOMAIN calls, ev \in SlotEvents : SlotsWebhook(call_id, ev)

SpecSlots == Init /\ [][NextSlots]_vars

(***************************************************************************)
(* Low-confidence turns of one call on the webhook channel                 *)
(***************************************************************************)
NoisyEvents ==
    { Event("speech", <<"i", "am", "delayed">>, "driver", 3),
      Event("speech", <<"ok">>, "driver", 4),
      Event("speech", <<"driving", "at", "Indio", "5pm">>, "driver", 0),
      Event("speech", <<"crash", "[inaudible]", "near", "Indio">>, "driver", 10) }

StartSimulated == start_call("simulate")

NoisyTurn(call_id, ev) == events < MaxNoisyTurns /\ Speech(call_id, ev)

NextNoise ==
    \/ StartSimulated
    \/ \E call_id \in DOMAIN calls, ev \in NoisyEvents : NoisyTurn(call_id, ev)

SpecNoise == Init /\ [][NextNoise]_vars

(***************************************************************************)
(* Clearly heard short turns of one call on the webhook channel            *)
(***************************************************************************)
ShortEvents ==
    { Event("speech", <<"ok">>, "driver", 10),
      Event("speech", <<>>, "driver", 10),
      Event("speech", <<"bye">>, "driver", 5),
      Event("speech", <<"driving", "crash">>, "driver", 10),
      Event("speech", <<"i", "am", "delayed">>, "driver", 3) }

ShortTurn(call_id, ev) == events < MaxShortTurns /\ Speech(call_id, ev)

NextShort ==
    \/ StartSimulated
    \/ \E call_id \in DOMAIN calls, ev \in ShortEvents : ShortTurn(call_id, ev)

SpecShort == Init /\ [][NextShort]_vars

(***************************************************************************)
(* Noisy, short and clear turns of one call mixed on the webhook channel   *)
(***************************************************************************)
MaxCounterTurns == 3

CounterEvents ==
    { Event("speech", <<"ok">>, "driver", 10),
      Event("speech", <<"ok">>, "driver", 3),
      Event("speech", <<"i", "am", "delayed">>, "driver", 3),
      Event("speech", <<"i", "am", "delayed">>, "driver", 10) }

CounterTurn(call_id, ev) == events < MaxCounterTurns /\ Speech(call_id, ev)

NextCounters ==
    \/ StartSimulated
    \/ \E call_id \in DOMAIN calls, ev \in CounterEvents : CounterTurn(call_id, ev)

SpecCounters == Init /\ [][NextCounters]_vars

(***************************************************************************)
(* Webhook requests of one call handled together: the handler is a         *)
(* coroutine and another request runs while it awaits the telephony        *)
(***************************************************************************)
ConcEvents ==
    { Event("speech", <<"i", "am", "delayed">>, "driver", 10),
      Event("speech", <<"i", "am", "near", "Indio">>, "driver", 10),
      Event("speech", <<"driving", "at", "Indio", "5pm">>, "driver", 10) }

\* webhook.py lines 132-251: from the arrival of a speech event that takes
\* the slot-driven follow-up to the await of speak; the transcript and the
\* slot stage are written, the conversation state is read
ConcArrive(h, call_id, ev) ==
    /\ inflight[h].pc = "idle"
    /\ SLOT_TEXT_TEMPLATES_ENABLED
    /\ ~IsNoisy(ev.text, ev.confidence) /\ ~IsShort(ev.text, ev.speaker)
    /\ ~detect_emergency_keywords(ev.text) /\ ~IsFarewell(ev.text)
    /\ \E d1 \in {SlotStage(append_transcript(Db, call_id), call_id, ev.text, ev.speaker)} :
        \E r \in {SlotDriven(d1, call_id, ev.text, backend, FALSE, TRUE,
                             UnusedDecision, UnusedSummary)} :
            /\ r.path = "followup"
            /\ CommitDb(Outcome(d1, <<>>, FALSE, "none", "followup", FALSE, FALSE)
                            @@ [writes |-> SlotStageWrites(call_id, ev.text, ev.speaker)],
                        "webhook", call_id, ev)
            /\ inflight' = [inflight EXCEPT ![h] =
                    [pc |-> "speaking", call_id |-> call_id, ev |-> ev,
                     next_slot |-> get_missing_slots(get_slot_memory(d1, call_id))[1],
                     retries |-> get_conversation_state(d1, call_id).prompt_retries,
                     prompt |-> r.said[1]]]
            /\ UNCHANGED ws

\* webhook.py lines 251-265: speak returns and the handler writes the
\* conversation state from its locals, or speak fails and the except
\* block asks the oracle
ConcResume(h, speak1) ==
    /\ inflight[h].pc = "speaking"
    /\ LET l == inflight[h]
       IN  IF speak1
           THEN CommitDb(Outcome(update_conversation_state(Db, l.call_id,
                                    [last_prompted_slot |-> l.next_slot,
                                     prompt_retries |-> l.retries + 1,
                                     last_agent_message |-> l.prompt]),
                                 <<l.prompt>>, FALSE, "ok", "followup", FALSE, FALSE),
                         "webhook", l.call_id, l.ev)
           ELSE \E speak2 \in BOOLEAN, dec2 \in DecideOutcomes, sm \in SummaryOutcomes :
                    CommitDb(Fallback(Outcome(Db, <<>>, FALSE, "none", "followup", TRUE, FALSE),
                                      l.call_id, backend, FALSE, speak2, dec2, sm)
                                @@ [speak_failed |-> TRUE],
                             "webhook", l.call_id, l.ev)
    /\ inflight' = [inflight EXCEPT ![h].pc = "done"]
    /\ UNCHANGED ws

NextConc ==
    \/ StartSimulated
    \/ \E h \in Handlers, call_id \in DOMAIN calls, ev \in ConcEvents : ConcArrive(h, call_id, ev)
    \/ \E h \in Handlers, speak1 \in BOOLEAN : ConcResume(h, speak1)

SpecConc == Init /\ [][NextConc]_vars

(***************************************************************************)
(* The ways a duplex session ends                                          *)
(***************************************************************************)
TeardownUtterances == { <<"driving", "at", "Indio", "5pm">>, <<"bye">> }

TeardownConnect(call_ref) == WsConnect(call_ref, GreetingA, TRUE)

TeardownTurn(text) == WsTurn(events + 1, "response_required", text)

NextTeardown ==
    \/ StartAccepted
    \/ \E call_ref \in WsRefs : TeardownConnect(call_ref)
    \/ \E text \in TeardownUtterances : TeardownTurn(text)
    \/ WsDisconnect
    \/ \E sent \in BOOLEAN : WsKeepalive(sent)

SpecTeardown == Init /\ [][NextTeardown]_vars

(***************************************************************************)
(* The duplex session around the completion of the three core slots: the  *)
(* driver fills them, in a turn or in a transcript update, and replies     *)
(***************************************************************************)
ConfirmUtterances ==
    { <<"i", "am", "delayed">>,
      <<"driving", "at", "Indio", "5pm">>,
      <<"no", "that", "is", "wrong">>,
      <<"yes", "correct">> }

ConfirmConnect(call_ref) == WsConnect(call_ref, GreetingA, TRUE)

ConfirmTurn(text) ==
    /\ WsTurn(events + 1, "response_required", text)
    /\ ~turn'.speak_failed

ConfirmUpdate(text) == WsUpdate(text)

NextConfirm ==
    \/ StartAccepted
    \/ \E call_ref \in WsRefs : ConfirmConnect(call_ref)
    \/ \E text \in ConfirmUtterances : ConfirmTurn(text)
    \/ \E text \in ConfirmUtterances : ConfirmUpdate(text)

SpecConfirm == Init /\ [][NextConfirm]_vars

(***************************************************************************)
(* The functions of slot_memory.py applied to inputs of every shape under  *)
(* each setting of the two switches                                        *)
(***************************************************************************)
\* the lists get_missing_slots can return
MissingLists ==
    { SelectSeq(SLOT_KEYS, LAMBDA key : key \in ks) : ks \in SUBSET SlotKeySet }

\* a value for each slot
SampleValue(key) ==
    CASE key = "driver_status" -> <<"Driving">>
      [] key = "current_location" -> <<"Indio">>
      [] key = "eta" -> <<"5pm">>
      [] key = "emergency_type" -> <<"Accident">>
      [] key = "emergency_location" -> <<"mile", "5">>

\* slot sets whose fields are null, empty or filled
SlotSets ==
    { [key \in SlotKeySet |-> IF shape[key] = "filled" THEN SampleValue(key)
                              ELSE IF shape[key] = "empty" THEN EmptyStr ELSE None]
      : shape \in [SlotKeySet -> {"null", "empty", "filled"}] }

\* the function applied, its input and its result become the observation
Applied(name, text, slots, said, updates) ==
    /\ turn' = [NoTurn EXCEPT !.chan = "function", !.event_type = name, !.text = text,
                              !.said = said,
                              !.writes = <<SlotWrite("in", slots), SlotWrite("out", updates)>>]
    /\ UNCHANGED <<SLOT_HEURISTICS_ENABLED, SLOT_TEXT_TEMPLATES_ENABLED, uuids, backend, calls,
                   transcripts, summaries, noisy_counter, short_counter, slot_memory,
                   conversation_state, ws, events, spoken, inflight>>

ApplyExtract(text) == Applied("extract_slots", text, <<>>, <<>>, extract_slots(text))

ApplyMissing(slots) ==
    Applied("get_missing_slots", get_missing_slots(slots), slots, <<>>, <<>>)

ApplyFollowup(missing) ==
    Applied("build_followup_for_missing", missing, <<>>,
            <<build_followup_for_missing(missing)>>, <<>>)

ApplyPoliteEnd(slots) ==
    Applied("polite_end_from_slots", <<>>, slots, <<polite_end_from_slots(slots)>>, <<>>)

\* Slot Sets as update_slot_memory leaves them: a slot is null or filled
StoredSlotSets ==
    { [key \in SlotKeySet |-> IF key \in filled THEN SampleValue(key) ELSE None]
      : filled \in SUBSET SlotKeySet }

\* how a call comes to be summarized: by the summarizer, with or without
\* emergency details, or with the fixed summary of a noisy or silent call
SummaryModes ==
    { [mode |-> "normal", emergency_info |-> info, sm |-> sm]
        : info \in {em.structured_emergency : em \in {e \in EmergencyOutcomes : e.kind = "dict"}},
          sm \in {o \in SummaryOutcomes : o.kind # "raise"} }
    \cup { [mode |-> m, emergency_info |-> NoStructured, sm |-> UnusedSummary]
            : m \in {"noisy", "no_response"} }

\* process_transcript_and_store for a call whose Slot Set is slots
ApplySummarize(slots, m) ==
    LET db == [create_call(Db, "c1") EXCEPT !.slot_memory = Put(@, "c1", slots)]
        p == process_transcript_and_store(db, "c1", m.emergency_info, m.mode = "noisy",
                                          m.mode = "no_response", m.sm, backend, FALSE)
    IN  /\ turn' = [NoTurn EXCEPT
                        !.chan = "function", !.event_type = "process_transcript_and_store",
                        !.path = m.mode, !.raised = p.raised,
                        !.structured_emergency = m.emergency_info,
                        !.writes = <<SlotWrite("in", slots),
                                     SlotWrite("out", p.db.calls["c1"].structured_summary),
                                     SlotWrite("summarizer", m.sm)>>]
        /\ UNCHANGED <<SLOT_HEURISTICS_ENABLED, SLOT_TEXT_TEMPLATES_ENABLED, uuids, backend,
                       calls, transcripts, summaries, noisy_counter, short_counter,
                       slot_memory, conversation_state, ws, events, spoken, inflight>>

\* the utterances given to the extractor: those of the channels and one
\* whose emergency keyword is in the detector's list only (escalation.py 6)
ExtractorUtterances == Utterances \cup {<<"blowout", "near", "Indio">>}

NextFunctions ==
    \/ \E text \in ExtractorUtterances : ApplyExtract(text)
    \/ \E slots \in SlotSets : ApplyMissing(slots)
    \/ \E missing \in MissingLists : ApplyFollowup(missing)
    \/ \E slots \in SlotSets : ApplyPoliteEnd(slots)

SpecFunctions == Init /\ [][NextFunctions]_vars

NextSummary == \E slots \in StoredSlotSets, m \in SummaryModes : ApplySummarize(slots, m)

SpecSummary == Init /\ [][NextSummary]_vars

(***************************************************************************)
(* The same driver utterances delivered to two fresh calls, one on each    *)
(* channel: call c2 over the webhook, call c1 over its duplex session      *)
(***************************************************************************)
InitChannels ==
    /\ SLOT_HEURISTICS_ENABLED \in BOOLEAN
    /\ SLOT_TEXT_TEMPLATES_ENABLED \in BOOLEAN
    /\ backend \in {"memory", "supabase"}
    /\ uuids = RecordIds
    /\ calls = <<>>
    /\ transcripts = <<>>
    /\ summaries = <<>>
    /\ noisy_counter = <<>>
    /\ short_counter = <<>>
    /\ slot_memory = <<>>
    /\ conversation_state = <<>>
    /\ ws = WsClosed
    /\ events = 0
    /\ spoken = <<>>
    /\ turn = NoTurn
    /\ inflight = [h \in Handlers |-> Idle]

ChannelsConnect == uuids = {} /\ WsConnect("call_1", GreetingA, TRUE)

\* the utterance reaches the webhook first ...
ChannelsWebhook(text) ==
    /\ ws.open
    /\ turn.chan # "webhook"
    /\ Speech("c2", Event("speech", text, "driver", 10))
    /\ ~turn'.speak_failed

\* ... and then the duplex session
ChannelsWs ==
    /\ turn.chan = "webhook"
    /\ WsTurn(events + 1, "response_required", turn.text)
    /\ ~turn'.speak_failed

NextChannels ==
    \/ StartAccepted
    \/ ChannelsConnect
    \/ \E text \in WsUtterances : ChannelsWebhook(text)
    \/ ChannelsWs

SpecChannels == InitChannels /\ [][NextChannels]_vars

(***************************************************************************)
(* openai_client.py: one invocation of an oracle operation, attempt by     *)
(* attempt                                                                 *)
(***************************************************************************)
OracleOps == {"decide_next_action", "emergency_protocol", "summarize"}

\* lines 74 and 133: decide_next_action and summarize are wrapped in
\* retry(stop=stop_after_attempt(3)); line 114: emergency_protocol is not
\* wrapped, its one attempt is the invocation
stop_after_attempt(op) == IF op = "emergency_protocol" THEN 1 ELSE 3

\* the invocation in progress: operation, attempts made, and whether it is
\* still running, has returned or has raised
Invocation(op, attempts, result) ==
    [NoTurn EXCEPT !.chan = "oracle", !.event_type = op, !.response_id = attempts,
                   !.result = result, !.raised = (result = "raised")]

OracleStep(t) ==
    /\ turn' = t
    /\ UNCHANGED <<SLOT_HEURISTICS_ENABLED, SLOT_TEXT_TEMPLATES_ENABLED, uuids, backend, calls,
                   transcripts, summaries, noisy_counter, short_counter, slot_memory,
                   conversation_state, ws, events, spoken, inflight>>

\* a handler calls the operation
OracleInvoke(op) ==
    /\ turn.result # "running"
    /\ OracleStep(Invocation(op, 0, "running"))

\* one attempt: the body runs and returns, or the request to the model
\* provider raises; a raise is retried until the stop condition holds
OracleAttempt(ok) ==
    /\ turn.chan = "oracle"
    /\ turn.result = "running"
    /\ LET attempts == turn.response_id + 1
       IN  OracleStep(Invocation(turn.event_type, attempts,
                IF ok THEN "returned"
                ELSE IF attempts >= stop_after_attempt(turn.event_type) THEN "raised"
                ELSE "running"))

NextOracle ==
    \/ \E op \in OracleOps : OracleInvoke(op)
    \/ \E ok \in BOOLEAN : OracleAttempt(ok)

SpecOracle == Init /\ [][NextOracle]_vars

(***************************************************************************)
(* The prompts of one call: the webhook asks for the missing slots while   *)
(* the call's duplex session also receives what the driver says            *)
(***************************************************************************)
PromptEvents ==
    { Event("speech", <<"i", "am", "delayed">>, "driver", 10),
      Event("speech", <<"on", "the", "road">>, "driver", 10),
      Event("update_only", <<"driving", "at", "Indio", "5pm">>, "driver", 10) }

PromptConnect == WsConnect("call_1", GreetingA, TRUE)

PromptWebhook(call_id, ev) ==
    /\ events < MaxPromptTurns
    /\ Speech(call_id, ev)
    /\ ~turn'.speak_failed

PromptWsTurn(text) ==
    /\ WsTurn(events + 1, "response_required", text)
    /\ ~turn'.speak_failed

NextPrompt ==
    \/ StartAccepted
    \/ PromptConnect
    \/ \E call_id \in DOMAIN calls, ev \in PromptEvents : PromptWebhook(call_id, ev)
    \/ \E text \in {<<"driving", "at", "Indio", "5pm">>} : PromptWsTurn(text)

SpecPrompt == Init /\ [][NextPrompt]_vars

(***************************************************************************)
(* Events that ask for no response: update_only messages on both channels, *)
(* the keepalive task and the provider's ping_pong, between turns          *)
(***************************************************************************)
QuietEvents ==
    { Event("update_only", <<"accident", "at", "Indio">>, "driver", 10),
      Event("update_only", <<"bye">>, "driver", 10),
      Event("update_only", <<"driving", "crash">>, "driver", 3) }

QuietConnect(call_ref) == WsConnect(call_ref, GreetingA, TRUE)

\* the turn before the quiet events: a webhook turn that asks for a slot,
\* or a duplex turn that is answered
QuietSpeech(call_id) ==
    /\ events = 0
    /\ WebhookSpeech(call_id, Event("speech", <<"i", "am", "delayed">>, "driver", 10))

QuietTurn(text) == events = 0 /\ WsTurn(events + 1, "response_required", text)

NextQuiet ==
    \/ StartAccepted
    \/ \E call_ref \in WsRefs : QuietConnect(call_ref)
    \/ \E call_id \in DOMAIN calls : QuietSpeech(call_id)
    \/ \E call_id \in WebhookCallIds, ev \in QuietEvents : WebhookSpeech(call_id, ev)
    \/ WsPing
    \/ \E text \in WsUtterances : WsUpdate(text)
    \/ \E text \in {<<"driving", "at", "Indio", "5pm">>} : QuietTurn(text)
    \/ \E sent \in BOOLEAN : WsKeepalive(sent)

SpecQuiet == Init /\ [][NextQuiet]_vars

(***************************************************************************)
(* Properties                                                              *)
(***************************************************************************)
\* the turn recorded in `turn` answered a driver utterance on the webhook
DriverTurn(t) ==
    /\ t.chan = "webhook"
    /\ t.event_type \in {"speech", "transcript_update"}
    /\ t.speaker = "driver"

\* the turn recorded in `turn` answered a request on the duplex channel
DuplexTurn(t) ==
    /\ t.chan = "ws"
    /\ t.event_type \in {"response_required", "reminder_required"}

Ended(status) == status \in {"completed", "processed"}

CoreFilled(slots) ==
    /\ Truthy(Get(slots, "driver_status"))
    /\ Truthy(Get(slots, "current_location"))
    /\ Truthy(Get(slots, "eta"))

\* C1: a driver utterance with both an emergency keyword and a
\* normal-status keyword always takes the emergency path, never the
\* follow-up or closing path, on the webhook and on the duplex channel
C1_EmergencyPrecedence ==
    (/\ DriverTurn(turn) \/ (DuplexTurn(turn) /\ turn.path # "duplicate")
     /\ (turn.chan = "webhook" => turn.call_id \in DOMAIN calls)
     /\ ~turn.speak_failed
     /\ detect_emergency_keywords(turn.text)
     /\ AnyOccurs(StatusKeywords, Lower(turn.text)))
    => turn.path = "emergency"

\* C2: emergency detection comes before the noise and short-utterance
\* counters: a driver utterance with an emergency keyword runs the
\* emergency protocol whatever its confidence or length, and neither
\* counter is incremented in that turn
C2_EmergencyBeforeCounters ==
    [][(/\ DriverTurn(turn')
        /\ turn'.call_id \in DOMAIN calls
        /\ ~turn'.speak_failed
        /\ detect_emergency_keywords(turn'.text))
       => /\ turn'.path = "emergency"
          /\ noisy_counter' = noisy_counter
          /\ short_counter' = short_counter]_vars

\* C3: every turn on the emergency path leaves the call flagged as
\* escalated and ended, whatever emergency_protocol returned
C3_EmergencyEscalatesAndEnds ==
    (/\ DriverTurn(turn) \/ DuplexTurn(turn)
     /\ turn.path = "emergency"
     /\ ~turn.speak_failed
     /\ turn.call_id \in DOMAIN calls)
    => /\ calls[turn.call_id].escalation_status = <<"Escalation", "Flagged">>
       /\ Ended(calls[turn.call_id].status)

\* C4: when driver_status, current_location and eta are all filled for a
\* call, the very next slot-driven decision of that call ends it, and the
\* text spoken is the close that carries the three values
C4_TerminationCompleteness ==
    [][(/\ DriverTurn(turn')
        /\ turn'.call_id \in DOMAIN calls
        /\ CoreFilled(get_slot_memory(Db, turn'.call_id))
        /\ turn'.path \in {"followup", "close", "farewell"}
        /\ SLOT_TEXT_TEMPLATES_ENABLED
        /\ ~turn'.speak_failed)
       => /\ turn'.result = "ended"
          /\ Len(turn'.said) = 1
          /\ turn'.said[1].args =
                << slot_memory'[turn'.call_id]["driver_status"],
                   slot_memory'[turn'.call_id]["current_location"],
                   slot_memory'[turn'.call_id]["eta"] >>]_vars

\* C5: a filled slot is never set back to null or empty, and a field for
\* which every update of the step carries null, the empty string or
\* nothing keeps its value; this holds for the writes of the extractor,
\* of the emergency protocol and of the duplex reconciliation
C5_MonotonicFill ==
    [][\A id \in DOMAIN slot_memory : \A k \in SlotKeySet :
        /\ id \in DOMAIN slot_memory'
        /\ Truthy(slot_memory[id][k]) => Truthy(slot_memory'[id][k])
        /\ (\A n \in 1..Len(turn'.writes) :
                turn'.writes[n].call_id = id => ~Truthy(Get(turn'.writes[n].updates, k)))
           => slot_memory'[id][k] = slot_memory[id][k]]_vars

\* an update carried null for a slot that was filled, and the slot kept
\* its value
C5_Witness ==
    \E n \in 1..Len(turn.writes) :
        /\ turn.writes[n].call_id \in DOMAIN slot_memory
        /\ \E k \in DOMAIN turn.writes[n].updates :
            /\ turn.writes[n].updates[k] = None
            /\ Truthy(slot_memory[turn.writes[n].call_id][k])

\* C6: a request whose response_id was already answered in the session
\* changes neither slots, conversation state, counters, transcript nor
\* call status, and gets no second response
C6_IdempotentDuplicates ==
    [][(DuplexTurn(turn') /\ turn'.seen_before)
       => /\ turn'.said = <<>>
          /\ UNCHANGED <<calls, transcripts, summaries, noisy_counter, short_counter,
                         slot_memory, conversation_state>>]_vars

\* C7: two consecutive agent utterances of a call differ, unless the
\* oracle failed in the later turn
C7_NoImmediateRepetition ==
    (/\ DriverTurn(turn) \/ DuplexTurn(turn)
     /\ turn.said # <<>>
     /\ ~turn.ofail)
    => /\ turn.said[1] # turn.prev_said
       /\ \A n \in 1..(Len(turn.said) - 1) : turn.said[n] # turn.said[n + 1]

\* C8: every driver turn that asks for a response gets exactly one
\* non-empty response, also when extraction, storage or the oracle fails
C8_EveryTurnAnswered ==
    (/\ DriverTurn(turn) \/ (DuplexTurn(turn) /\ ~turn.seen_before)
     /\ ~turn.speak_failed)
    => /\ Len(turn.said) = 1
       /\ TextTruthy(turn.said[1])

\* C9: when an oracle call of the turn fails or returns a non-object, the
\* handler does not raise, answers with a sentence and does not end or
\* escalate the call
C9_OracleFailureContained ==
    (/\ DriverTurn(turn) \/ DuplexTurn(turn)
     /\ turn.ofail
     /\ ~turn.speak_failed)
    => /\ ~turn.raised
       /\ turn.said # <<>>
       /\ turn.result \notin {"ended", "escalated", "end_call"}

\* C10: counting from noisy_count 0, the first and the second
\* low-confidence (or inaudible) driver utterance of a call are answered
\* with the request to repeat and leave the call's status as it was; the
\* third is answered with the hand-off message and ends the call
C10_NoiseEscalation ==
    [][(/\ DriverTurn(turn')
        /\ IsNoisy(turn'.text, turn'.confidence)
        /\ turn'.call_id \in DOMAIN calls
        /\ ~turn'.speak_failed)
       => LET id == turn'.call_id
              low_count == GetOr(noisy_counter, id, 0) + 1
          IN  /\ noisy_counter'[id] = low_count
              /\ low_count \in {1, 2} =>
                    /\ turn'.said = <<PleaseRepeat>>
                    /\ calls'[id].status = calls[id].status
                    /\ ~Ended(calls'[id].status)
              /\ low_count = 3 =>
                    /\ turn'.said = <<HandOffNoisy>>
                    /\ Ended(calls'[id].status)]_vars

\* the third low-confidence turn of a call handed it off
C10_Witness ==
    /\ DriverTurn(turn)
    /\ turn.call_id \in DOMAIN noisy_counter
    /\ noisy_counter[turn.call_id] = 3
    /\ turn.said = <<HandOffNoisy>>
    /\ turn.call_id \in DOMAIN calls
    /\ Ended(calls[turn.call_id].status)

\* C11: counting from short_utterance_count 0, the first and the second
\* clearly heard driver utterance of fewer than three words are answered
\* with the clarification prompt and leave the call in progress; the
\* third is answered with the hand-off message and ends the call
C11_ShortEscalation ==
    [][(/\ DriverTurn(turn')
        /\ ~IsNoisy(turn'.text, turn'.confidence)
        /\ IsShort(turn'.text, turn'.speaker)
        /\ turn'.call_id \in DOMAIN calls
        /\ calls[turn'.call_id].status = "in_progress"
        /\ ~turn'.speak_failed)
       => LET id == turn'.call_id
              short_count == GetOr(short_counter, id, 0) + 1
          IN  /\ short_counter'[id] = short_count
              /\ short_count \in {1, 2} =>
                    /\ turn'.said = <<Clarify>>
                    /\ calls'[id].status = calls[id].status
                    /\ ~Ended(calls'[id].status)
              /\ short_count = 3 =>
                    /\ turn'.said = <<HandOffShort>>
                    /\ Ended(calls'[id].status)]_vars

\* the third short turn of a call handed it off
C11_Witness ==
    /\ DriverTurn(turn)
    /\ turn.call_id \in DOMAIN short_counter
    /\ short_counter[turn.call_id] = 3
    /\ turn.said = <<HandOffShort>>
    /\ turn.call_id \in DOMAIN calls
    /\ Ended(calls[turn.call_id].status)

\* C12: a driver utterance with 'bye', 'goodbye' or 'arrived' and no
\* emergency keyword is answered with the polite close and ends the call
\* in the same turn, whatever its length and the conversation state
C12_FarewellAtAnyPoint ==
    (/\ IsFarewell(turn.text)
     /\ ~detect_emergency_keywords(turn.text)
     /\ ~turn.speak_failed
     /\ \/ DriverTurn(turn) /\ turn.call_id \in DOMAIN calls
        \/ DuplexTurn(turn) /\ turn.path # "duplicate")
    => /\ turn.said # <<>>
       /\ turn.chan = "webhook" =>
            /\ turn.path = "farewell"
            /\ Ended(calls[turn.call_id].status)
       /\ turn.chan = "ws" => turn.end_call

\* C13: once a call is ended, a later utterance event for it gets no
\* agent speech, changes neither slots, counters nor conversation state,
\* and does not end the call again
C13_EndedIsTerminal ==
    [][(/\ DriverTurn(turn') \/ (DuplexTurn(turn') /\ turn'.call_id \in DOMAIN calls)
        /\ turn'.call_id \in DOMAIN calls
        /\ Ended(calls[turn'.call_id].status))
       => /\ turn'.said = <<>>
          /\ UNCHANGED <<slot_memory, noisy_counter, short_counter, conversation_state>>
          /\ calls'[turn'.call_id].status = calls[turn'.call_id].status]_vars

\* the position of a status in the order queued, in_progress, completed,
\* processed
StatusRank(status) ==
    CASE status = "queued" -> 0
      [] status = "in_progress" -> 1
      [] status = "completed" -> 2
      [] status = "processed" -> 3
      [] OTHER -> 4

\* C14: a call's status never moves backward in the order queued,
\* in_progress, completed, processed, and a failed call keeps its status
C14_StatusForwardOnly ==
    [][\A id \in DOMAIN calls :
        /\ id \in DOMAIN calls'
        /\ calls[id].status = "failed" => calls'[id].status = "failed"
        /\ (calls[id].status # "failed" /\ calls'[id].status # "failed")
            => StatusRank(calls'[id].status) >= StatusRank(calls[id].status)]_vars

\* C15: the turns of a call do not interleave: when a turn writes the
\* conversation state, the state is still the one the turn read, so no
\* update of prompt_retries or last_prompted_slot is lost
C15_SingleWriterPerCall ==
    [][\A h \in Handlers :
        (inflight[h].pc = "speaking" /\ inflight'[h].pc = "done" /\ ~turn'.speak_failed)
        => /\ get_conversation_state(Db, inflight[h].call_id).prompt_retries
                = inflight[h].retries
           /\ conversation_state'[inflight[h].call_id].prompt_retries
                = get_conversation_state(Db, inflight[h].call_id).prompt_retries + 1]_vars

\* the stored state of the call kept under key k is left as it was
KeptFor(k) ==
    /\ k \in DOMAIN calls => (k \in DOMAIN calls' /\ calls'[k] = calls[k])
    /\ k \in DOMAIN transcripts => (k \in DOMAIN transcripts' /\ transcripts'[k] = transcripts[k])
    /\ k \in DOMAIN noisy_counter
        => (k \in DOMAIN noisy_counter' /\ noisy_counter'[k] = noisy_counter[k])
    /\ k \in DOMAIN short_counter
        => (k \in DOMAIN short_counter' /\ short_counter'[k] = short_counter[k])
    /\ k \in DOMAIN conversation_state
        => (k \in DOMAIN conversation_state' /\ conversation_state'[k] = conversation_state[k])
    /\ GetOr(slot_memory', k, DefaultSlots) = GetOr(slot_memory, k, DefaultSlots)

\* C16: an event of one call leaves the slots, conversation state,
\* counters, transcript and status of every other call as they were; on
\* the duplex channel the other call's state is the one its session reads
\* and writes, also when the channel's id maps to no stored record
C16_CallIsolation ==
    [][/\ turn'.chan = "webhook" =>
            \A b \in CallIds \ {turn'.call_id} : KeptFor(b)
       /\ turn'.chan = "ws" =>
            \A b \in WsRefs \ {turn'.call_id} :
                KeptFor(ResolveDbCallId(Db, backend, b, ""))]_vars

\* the session was opened and has ended
SessionOver(w) == w.call_id # "None" /\ ~w.open

\* C17: however a duplex session ends (the provider disconnects, a send
\* or receive fails, the engine closes the socket after the end of the
\* call), the keepalive task is cancelled, nothing is sent afterwards, and
\* the slot updates the ending turn had committed stay in the slot memory
C17_TeardownOnDisconnect ==
    [][/\ SessionOver(ws') => ws'.ka_task = "cancelled"
       /\ SessionOver(ws) => (ws' = ws /\ (turn'.chan = "ws" => turn'.said = <<>>))
       /\ (ws.open /\ SessionOver(ws')) =>
            /\ \A id \in DOMAIN slot_memory : id \in DOMAIN slot_memory'
            /\ \A n \in 1..Len(turn'.writes) :
                \A k \in DOMAIN turn'.writes[n].updates :
                    Truthy(turn'.writes[n].updates[k])
                    => slot_memory'[turn'.writes[n].call_id][k] = turn'.writes[n].updates[k]]_vars

\* a session ended by a failed send while the keepalive task was running,
\* after the turn had written a slot
C17_Witness ==
    /\ SessionOver(ws)
    /\ ws.ka_task = "cancelled"
    /\ turn.chan = "ws"
    /\ turn.speak_failed
    /\ \E n \in 1..Len(turn.writes) :
        /\ turn.writes[n].call_id \in DOMAIN slot_memory
        /\ \E k \in DOMAIN turn.writes[n].updates :
            /\ Truthy(turn.writes[n].updates[k])
            /\ slot_memory[turn.writes[n].call_id][k] = turn.writes[n].updates[k]

\* the slot memory the duplex session reads and writes
SessionKey == ResolveDbCallId(Db, backend, ws.call_id, ws.db_call_id)

\* the session awaits the driver's confirmation: its flag is set, or the
\* three core slots are filled and the session goes on
AwaitingConfirmation ==
    /\ ws.open
    /\ \/ ws.awaiting_confirmation
       \/ CoreFilled(GetOr(slot_memory, SessionKey, DefaultSlots))

AsksDriverStatus(t) ==
    t.tpl \in {"No problem. What is your current status?",
               "Got it. What's your current status?"}

\* a reply that answers the confirmation and is neither an emergency nor
\* a farewell
PlainReply(t) ==
    /\ DuplexTurn(t)
    /\ t.path # "duplicate"
    /\ t.text # EmptyStr
    /\ ~detect_emergency_keywords(t.text)
    /\ ~IsFarewell(t.text)
    /\ ~t.speak_failed

\* C18: when the session awaits confirmation and the reply holds a
\* negative keyword, driver_status, current_location and eta of the Slot
\* Set are reset to null, the agent asks for the driver's status and the
\* call does not end
C18_NegativeConfirmation ==
    [][(/\ AwaitingConfirmation
        /\ PlainReply(turn')
        /\ AnyOccurs(NegativeWords, Lower(turn'.text))
        /\ ~AnyOccurs(AffirmativeWords, Lower(turn'.text)))
       => /\ \A k \in {"driver_status", "current_location", "eta"} :
                ~Truthy(GetOr(slot_memory', SessionKey, DefaultSlots)[k])
          /\ Len(turn'.said) = 1
          /\ AsksDriverStatus(turn'.said[1])
          /\ ~turn'.end_call]_vars

\* C19: a session whose three core slots are filled awaits confirmation
\* before the call can end; while it awaits, an affirmative reply ends
\* the call, and a reply that is neither affirmative nor negative leaves
\* it awaiting
C19_ConfirmationHeld ==
    [][PlainReply(turn')
       => /\ (turn'.end_call /\ CoreFilled(GetOr(slot_memory', SessionKey, DefaultSlots)))
                => ws.awaiting_confirmation
          /\ (CoreFilled(GetOr(slot_memory', SessionKey, DefaultSlots)) /\ ~turn'.end_call)
                => ws'.awaiting_confirmation
          /\ (ws.awaiting_confirmation /\ AnyOccurs(AffirmativeWords, Lower(turn'.text)))
                => turn'.end_call
          /\ (ws.awaiting_confirmation
              /\ ~AnyOccurs(AffirmativeWords, Lower(turn'.text))
              /\ ~AnyOccurs(NegativeWords, Lower(turn'.text)))
                => (ws'.awaiting_confirmation /\ ~turn'.end_call)]_vars

\* C20: with SLOT_HEURISTICS_ENABLED false extract_slots returns the empty
\* dict for every text; with SLOT_TEXT_TEMPLATES_ENABLED false
\* build_followup_for_missing and polite_end_from_slots return the empty
\* string for every input
C20_ConfigGating ==
    /\ (turn.event_type = "extract_slots" /\ ~SLOT_HEURISTICS_ENABLED)
        => turn.writes[2].updates = <<>>
    /\ (turn.event_type \in {"build_followup_for_missing", "polite_end_from_slots"}
        /\ ~SLOT_TEXT_TEMPLATES_ENABLED)
        => turn.said = <<EmptyText>>

\* with the heuristics switched off, an utterance that names status,
\* location and time of arrival gave the empty dict
C20_Witness ==
    /\ ~SLOT_HEURISTICS_ENABLED
    /\ turn.event_type = "extract_slots"
    /\ turn.text = <<"driving", "at", "Indio", "5pm">>
    /\ DOMAIN extract_slots_ungated(turn.text) = {"driver_status", "current_location", "eta"}
    /\ turn.writes[2].updates = <<>>

\* C21: for the same starting state and the same driver utterances the
\* webhook and the duplex session decide alike on every turn: the call ends
\* on both or on neither, it is escalated on both or on neither, and the
\* two Slot Sets are the same
C21_OneTurnHandler ==
    [][(/\ turn.chan = "webhook" /\ turn.result # "error"
        /\ turn'.chan = "ws" /\ turn'.event_type = "response_required")
       => /\ turn'.end_call <=> Ended(calls'["c2"].status)
          /\ (turn'.path = "emergency") <=> (turn.path = "emergency")
          /\ get_slot_memory(Db, ResolveDbCallId(Db, backend, "call_1", ""))'
                = get_slot_memory(Db, "c2")']_vars

\* C22: an invocation of decide_next_action, emergency_protocol or
\* summarize makes at most 3 attempts, a failure of attempt 1 or 2 is
\* followed by another attempt, and only the third failure ends the
\* invocation with an error
C22_BoundedOracleRetry ==
    (turn.chan = "oracle")
    => /\ turn.response_id <= 3
       /\ turn.result = "raised" => turn.response_id = 3

\* C23: a turn on which the emergency protocol ran and gave a non-empty
\* emergency_type or emergency_location leaves that value in the Slot Set
\* of the call, on the webhook and on the duplex session
C23_EmergencySlotsPopulated ==
    (/\ turn.chan \in {"webhook", "ws"}
     /\ turn.chan = "webhook" => turn.call_id \in DOMAIN calls
     /\ turn.structured_emergency.kind = "dict"
     /\ ~turn.raised)
    => LET id == IF turn.chan = "ws" THEN ws.db_call_id ELSE turn.call_id
       IN  \A key \in {"emergency_type", "emergency_location"} :
                Truthy(turn.structured_emergency[key])
                => get_slot_memory(Db, id)[key] = turn.structured_emergency[key]

\* C24: in every reachable state a call whose prompt_retries is above 0
\* still misses the slot named by last_prompted_slot; once that slot is
\* filled, by whichever channel, the retries are back at 0
C24_RetryReset ==
    \A id \in DOMAIN conversation_state :
        conversation_state[id].prompt_retries > 0
        => InSeq(conversation_state[id].last_prompted_slot,
                 get_missing_slots(get_slot_memory(Db, id)))

\* the standard question of a slot
StandardQuestion(slot) == build_followup_for_missing(<<slot>>)

\* C25: a follow-up prompt of the webhook for the slot that was prompted
\* last is the slot's rephrase on the first retry and the generic nudge on
\* later retries; a prompt for another slot is that slot's standard
\* question
C25_RephrasingLadder ==
    [][(/\ turn'.chan = "webhook" /\ turn'.path = "followup" /\ turn'.result = "ok"
        /\ SLOT_TEXT_TEMPLATES_ENABLED)
       => LET id == turn'.call_id
              before == get_conversation_state(Db, id)
              next_slot == conversation_state'[id].last_prompted_slot
          IN  IF next_slot = before.last_prompted_slot
              THEN turn'.said = <<IF before.prompt_retries <= 1
                                   THEN Rephrase(next_slot, StandardQuestion(next_slot))
                                   ELSE GenericNudge>>
              ELSE turn'.said = <<StandardQuestion(next_slot)>>]_vars

\* the position of a slot in the canonical order
SlotRank(key) ==
    CASE key = "driver_status" -> 1
      [] key = "current_location" -> 2
      [] key = "eta" -> 3
      [] key = "emergency_type" -> 4
      [] key = "emergency_location" -> 5

\* the canned question of each slot
CannedQuestion(key) ==
    CASE key = "driver_status" -> Say("Got it. What's your current status?", <<>>)
      [] key = "current_location" -> Say("Thanks. Where are you right now?", <<>>)
      [] key = "eta" -> Say("Noted. What's your ETA?", <<>>)
      [] key = "emergency_type" -> Say("Understood. What type of emergency is it?", <<>>)
      [] key = "emergency_location" -> Say("Where exactly is the emergency?", <<>>)

ClosingNudge == Say("Thanks. Anything else you want to add?", <<>>)

\* get_missing_slots lists exactly the null or empty slots, each once, in
\* the canonical order
MissingIsExact ==
    (turn.event_type = "get_missing_slots")
    => LET slots == turn.writes[1].updates
           missing == turn.text
       IN  /\ {missing[i] : i \in 1..Len(missing)}
                = {key \in SlotKeySet : slots[key] = None \/ slots[key] = EmptyStr}
           /\ \A i, j \in 1..Len(missing) : i < j => SlotRank(missing[i]) < SlotRank(missing[j])

\* the follow-up is the canned question of the first element of the list,
\* or the closing nudge for the empty list
FollowupAsksFirst ==
    turn.said = << IF turn.text = <<>> THEN ClosingNudge ELSE CannedQuestion(turn.text[1]) >>

\* C26 as stated: missing(slots) is exact and canonical, and for every
\* list of missing slots followup_for returns the canned question of its
\* first element, or the closing nudge when the list is empty
C26_MissingSlotPolicy ==
    /\ MissingIsExact
    /\ turn.event_type = "build_followup_for_missing" => FollowupAsksFirst

\* C26 amended: the same, for followup_for with the text templates enabled
C26_MissingSlotPolicyTemplates ==
    /\ MissingIsExact
    /\ (turn.event_type = "build_followup_for_missing" /\ SLOT_TEXT_TEMPLATES_ENABLED)
        => FollowupAsksFirst

\* with the templates enabled, the list that misses location, time of
\* arrival and emergency location got the question for the location
C26_Witness ==
    /\ SLOT_TEXT_TEMPLATES_ENABLED
    /\ turn.event_type = "build_followup_for_missing"
    /\ turn.text = <<"current_location", "eta", "emergency_location">>
    /\ turn.said = <<CannedQuestion("current_location")>>

\* C27: with the templates enabled, polite_end_from_slots gives the
\* confirmation close with status, location and time of arrival when the
\* three are filled; otherwise the escalation close with emergency type and
\* location when both are filled; otherwise the generic thanks
C27_PoliteCloseCases ==
    (turn.event_type = "polite_end_from_slots" /\ SLOT_TEXT_TEMPLATES_ENABLED)
    => LET slots == turn.writes[1].updates
           Filled(key) == slots[key] # None /\ slots[key] # EmptyStr
       IN  turn.said =
             << IF Filled("driver_status") /\ Filled("current_location") /\ Filled("eta")
                THEN Say("Thanks for the update - status {status}, location {loc}, ETA {eta}. Drive safe.",
                         <<slots["driver_status"], slots["current_location"], slots["eta"]>>)
                ELSE IF Filled("emergency_type") /\ Filled("emergency_location")
                THEN Say("I have the emergency noted: {etype} at {eloc}. A dispatcher will call you immediately.",
                         <<slots["emergency_type"], slots["emergency_location"]>>)
                ELSE Say("Thanks for the details. We'll follow up if needed.", <<>>) >>

\* all five slots filled: the confirmation close was given, not the
\* escalation close
C27_Witness ==
    /\ SLOT_TEXT_TEMPLATES_ENABLED
    /\ turn.event_type = "polite_end_from_slots"
    /\ \A key \in SlotKeySet : Truthy(turn.writes[1].updates[key])
    /\ turn.said[1].args = <<<<"Driving">>, <<"Indio">>, <<"5pm">>>>

\* C28: with SLOT_HEURISTICS_ENABLED false no turn, on either channel,
\* writes into a Slot Set a value matched in the driver's text: every value
\* written comes from the structured output of the oracle
C28_HeuristicsSwitchGlobal ==
    (~SLOT_HEURISTICS_ENABLED /\ turn.chan \in {"webhook", "ws"})
    => \A i \in 1..Len(turn.writes) :
          LET updates == turn.writes[i].updates
          IN  /\ turn.structured_emergency.kind = "dict"
              /\ \A key \in DOMAIN updates : updates[key] = turn.structured_emergency[key]

\* C29: after a call.started event for a call id without a record, a
\* record with that call id exists and its status is in_progress
C29_CallCreatedOnFirstEvent ==
    [][(/\ turn'.chan = "webhook" /\ turn'.event_type = "call.started"
        /\ ~turn'.raised
        /\ turn'.call_id \notin DOMAIN calls)
       => /\ turn'.call_id \in DOMAIN calls'
          /\ calls'[turn'.call_id].status = "in_progress"]_vars

\* C30: a speech turn for a call without a stored record, or one during
\* which a storage operation fails, is not failed: with the telephony and
\* the oracle working it ends without error and the driver gets a response
C30_StorageFailureContained ==
    (/\ turn.chan = "webhook" /\ turn.event_type = "speech" /\ turn.speaker = "driver"
     /\ turn.call_id \notin DOMAIN calls
     /\ ~turn.speak_failed /\ ~turn.ofail)
    => /\ ~turn.raised
       /\ turn.said # <<>>

\* the turn recorded in t answered the driver with a decision that ends
\* the call: a close, a farewell, a hand-off or an escalation on the
\* webhook, a response carrying end_call on the duplex channel
EndsCall(t) ==
    /\ ~t.speak_failed
    /\ t.said # <<>>
    /\ \/ /\ DriverTurn(t)
          /\ \/ t.path \in {"close", "farewell", "emergency"}
             \/ t.said[Len(t.said)] \in {HandOffNoisy, HandOffShort}
       \/ DuplexTurn(t) /\ t.end_call

\* the record of the call the turn in t belongs to, "" if it has none
RecordOf(t) ==
    IF t.chan = "ws" THEN ResolveDbCallId(Db, backend, t.call_id, "")
    ELSE IF t.call_id \in DOMAIN calls THEN t.call_id ELSE ""

\* C31: a turn whose decision ends the call saves a structured summary of
\* the call and leaves the call's status at completed (processed once the
\* summary is stored)
C31_EndedIsSummarized ==
    [][EndsCall(turn')
       => LET id == RecordOf(turn')
          IN  /\ id \in DOMAIN calls'
              /\ Ended(calls'[id].status)
              /\ GetOr(summaries', id, 0) = GetOr(summaries, id, 0) + 1
              /\ calls'[id].structured_summary.kind = "dict"]_vars

\* C32: a call.ended event that follows the turn in which the engine ended
\* the call, and summarized it, produces no second summary of the call
C32_SummarizedOnce ==
    [][(/\ EndsCall(turn) /\ turn.chan = "webhook"
        /\ ~turn.ofail /\ ~turn'.ofail
        /\ GetOr(summaries, turn.call_id, 0) = 1
        /\ turn'.chan = "webhook" /\ turn'.event_type = "call.ended"
        /\ turn'.call_id = turn.call_id)
       => GetOr(summaries', turn.call_id, 0) = 1]_vars

\* what a session remembers from one turn to the next
SessionTurnState(w) ==
    <<w.open, w.last_response_id_handled, w.last_agent_text_sent, w.awaiting_confirmation,
      w.captured, w.slot_values, w.db_call_id, w.opening_sent>>

\* C33: a round of the keepalive task, its send failing or not, and the
\* answer to an inbound ping_pong leave the session open and its turn state
\* (last handled id, last agent text, confirmation flag, slots) and the
\* stored Slot Sets as they were, say nothing to the driver and raise nothing
C33_KeepaliveIndependent ==
    [][(turn'.chan = "ws" /\ turn'.event_type \in {"keepalive", "ping_pong"})
       => /\ SessionTurnState(ws') = SessionTurnState(ws)
          /\ slot_memory' = slot_memory
          /\ calls' = calls
          /\ transcripts' = transcripts
          /\ turn'.said = <<>>
          /\ ~turn'.raised]_vars

\* a keepalive send failed in a session that had already answered a turn
C33_Witness ==
    /\ turn.chan = "ws" /\ turn.event_type = "keepalive"
    /\ ws.ka_task = "done"
    /\ ws.open
    /\ ws.last_response_id_handled # -1
    /\ ws.last_agent_text_sent # EmptyText

\* C34: a webhook turn during which a speak call failed ends with the
\* failure raised to the caller of the handler, and neither sets the
\* call's status to completed nor saves a summary
C34_SpeakFailurePropagates ==
    [][(/\ turn'.chan = "webhook" /\ turn'.event_type = "speech"
        /\ turn'.call_id \in DOMAIN calls
        /\ ~turn'.ofail
        /\ turn'.speak_failed)
       => /\ turn'.raised
          /\ calls'[turn'.call_id].status = calls[turn'.call_id].status
          /\ summaries' = summaries]_vars

\* C35: whenever the extractor finds a location in an utterance on which
\* the emergency detection fires, it gives emergency_location the value of
\* current_location; and it never gives emergency_location without giving
\* current_location the same value
C35_EmergencyLocationMirrored ==
    (turn.chan = "function" /\ turn.event_type = "extract_slots")
    => LET updates == turn.writes[2].updates
       IN  /\ ("current_location" \in DOMAIN updates /\ detect_emergency_keywords(turn.text))
                => /\ "emergency_location" \in DOMAIN updates
                   /\ updates["emergency_location"] = updates["current_location"]
           /\ "emergency_location" \in DOMAIN updates
                => /\ "current_location" \in DOMAIN updates
                   /\ updates["current_location"] = updates["emergency_location"]

SlotsDone(w) == w.captured.status /\ w.captured.location /\ w.captured.eta

\* C37: when a duplex response carries end_call because the slots are done
\* (no farewell, the call has a record), driver_status, current_location
\* and eta of the call's Slot Set are filled and the text sent is not one
\* of the questions for a missing slot
C37_SlotsDoneClosesPolitely ==
    [][(/\ DuplexTurn(turn') /\ turn'.end_call /\ turn'.said # <<>>
        /\ ~turn'.ofail
        /\ ~IsFarewell(turn'.text)
        /\ SlotsDone(ws')
        /\ RecordOf(turn') # "")
       => /\ RecordOf(turn') \in DOMAIN slot_memory'
          /\ CoreFilled(slot_memory'[RecordOf(turn')])
          /\ \A key \in SlotKeySet : turn'.said[1] # CannedQuestion(key)]_vars

\* C38: when a turn on the emergency path ends a call that has a record
\* and the oracle works, the summary saved for the call has call_outcome
\* "Emergency Detected" and escalation_status "Escalation Flagged"
C38_EscalatedSummarizedAsEmergency ==
    [][(/\ EndsCall(turn') /\ turn'.path = "emergency"
        /\ ~turn'.ofail /\ ~turn'.raised
        /\ RecordOf(turn') # "")
       => LET summary == calls'[RecordOf(turn')].structured_summary
          IN  /\ summary.kind = "dict"
              /\ summary.call_outcome = "Emergency Detected"
              /\ summary.escalation_status = <<"Escalation", "Flagged">>]_vars

\* the value of a summary field before the Slot Set is merged in: the
\* summarizer's, overridden by the emergency details that have a value,
\* and null in the fixed summaries of noisy and silent calls
SummarizerValue(t, key) ==
    IF t.path # "normal" THEN None
    ELSE IF /\ t.structured_emergency.kind = "dict"
            /\ key \in {"emergency_type", "emergency_location"}
            /\ Truthy(t.structured_emergency[key])
    THEN t.structured_emergency[key]
    ELSE t.writes[3].updates[key]

CountersGrow ==
    /\ \A id \in DOMAIN noisy_counter :
            id \in DOMAIN noisy_counter' /\ noisy_counter'[id] >= noisy_counter[id]
    /\ \A id \in DOMAIN short_counter :
            id \in DOMAIN short_counter' /\ short_counter'[id] >= short_counter[id]

\* a driver utterance of a call with a record adds one to noisy_count when
\* it is noisy, whatever its length, one to short_utterance_count when it
\* is short and clearly heard, and leaves both alone otherwise
CountsExactlyOne ==
    (DriverTurn(turn') /\ turn'.call_id \in DOMAIN calls)
    => LET id == turn'.call_id
           noisy == IF IsNoisy(turn'.text, turn'.confidence) THEN 1 ELSE 0
           short == IF noisy = 0 /\ IsShort(turn'.text, turn'.speaker) THEN 1 ELSE 0
       IN  /\ GetOr(noisy_counter', id, 0) = GetOr(noisy_counter, id, 0) + noisy
           /\ GetOr(short_counter', id, 0) = GetOr(short_counter, id, 0) + short

\* the turn in t was answered with one of the two hand-off messages
HandedOff(t) == t.said # <<>> /\ t.said[Len(t.said)] \in {HandOffNoisy, HandOffShort}

\* the turn in t is a noisy or short driver utterance of a call with a
\* record, and the telephony worked
Qualifying(t) ==
    /\ DriverTurn(t)
    /\ t.call_id \in DOMAIN calls
    /\ ~t.speak_failed
    /\ (IsNoisy(t.text, t.confidence) \/ IsShort(t.text, t.speaker))

====
